---- MODULE Spec2Model ----
(***************************************************************************)
(* Workflow engine of the Slack/Notion PMO worker: the inbound event and   *)
(* interaction handlers (slackEvents, slackInteractions), the scheduled    *)
(* flows that create thread records, and the KV records they share         *)
(* (workflow store).  Every KV get/put/delete of a handler is one step of  *)
(* an invocation; invocations interleave on the shared store, which has no *)
(* transactions.                                                           *)
(***************************************************************************)
EXTENDS Integers, Sequences, FiniteSets, TLC

\* ------------------------------------------------------------------ bounds
\* conversation threads users write in (a thread is named by its root ts)
MaxThreads == 1
\* messages the bot can post that are later keys of the store
\* (confirmation messages, daily PM reports)
MaxMsgs == 2
\* entries a ReplyLog can hold before further replies are left out
MaxReplies == 2

\* concurrent invocations of the worker (ctx.waitUntil background tasks)
Procs == {1, 2}

Threads == 1 .. MaxThreads
BotMsgs == (MaxThreads + 1) .. (MaxThreads + MaxMsgs)
NoThread == 0
NoMsg == 0

\* ------------------------------------------------------------- vocabulary
\* PendingNotionAction.actions[].action
UpdateKinds ==
  {"update_assignee", "update_due", "update_sp", "update_status", "update_sprint"}

\* action lists the mention interpreter returns for intent "update"
UpdateProposals == { <<"update_assignee", "update_sprint", "update_status">> }
\* action lists built for intent "create_task" (one create_task per new task)
CreateProposals == { <<"create_task", "create_task">> }
\* action lists the PM-reply interpreter returns (possibly none)
PmProposals == { <<>>, <<"update_due", "update_sp">> }

\* a missing PendingAction (kv.get returned null)
Null == [actions |-> <<>>, threadTs |-> NoThread]

\* a missing PmThreadState
NoPm == [ts |-> NoMsg, state |-> "none"]

\* result of interpretMention
NoIntent == [intent |-> "none", actions |-> <<>>]
Intents ==
  [intent : {"create_task"}, actions : CreateProposals \cup { <<>> }]
    \cup [intent : {"update"}, actions : UpdateProposals]
    \cup [intent : {"query"}, actions : { <<>> }]

VARIABLES
  cache,          \* KV keys outside the workflow records (dedup hashes, snapshots)
  call,           \* library calls: the ones under way and the record of the finished ones
  hasCtx,         \* the ExecutionContext is passed to the dispatchers (ctx)
  reminded,       \* what the last run of the reminder flow did in each thread
  dryRun,         \* config.dryRun (DRY_RUN binding)
  pendingAction,  \* KV pending-action:{channel}:{ts}
  createRef,      \* KV pending-create-ref:{channel}:{threadTs}  (the BackRef)
  threadState,    \* KV thread:{channel}:{ts}, the state field
  replyLog,       \* KV reply:{channel}:{ts}
  pmThread,       \* KV pm-thread:{date}
  msgKind,        \* messages posted by the bot so far, by ts
  notion,         \* the task data source: the runs of calls made on it, by message
  proc,           \* the invocations in flight: position and local variables
  threadUsed,     \* threads users have already written in
  consumed,       \* history: how each confirmation or report message was finished
  open            \* history: thread has a saved proposal not yet approved/cancelled

store == <<pendingAction, createRef, threadState, replyLog, pmThread>>
\* everything the event handlers and the thread flows work on
workflow ==
  <<hasCtx, reminded, dryRun, pendingAction, createRef, threadState, replyLog, pmThread, msgKind,
    notion, proc, threadUsed, consumed, open>>
vars ==
  <<cache, call, hasCtx, reminded, dryRun, pendingAction, createRef, threadState, replyLog, pmThread, msgKind,
    notion, proc, threadUsed, consumed, open>>

Idle ==
  [pc |-> "idle", h |-> "none", m |-> NoMsg, t |-> NoThread, pending |-> Null,
   ref |-> NoMsg, old |-> Null, ts |-> "none", pm |-> NoPm, res |-> NoIntent,
   verdict |-> "none", results |-> <<>>, late |-> "no",
   out |-> "returned", ack |-> "ok", gate |-> "none", sig |-> "none"]

\* the next ts chatPostMessage returns (0 when the bound is reached)
FreshTs ==
  IF \E m \in BotMsgs : msgKind[m] = "none"
    THEN CHOOSE m \in BotMsgs : msgKind[m] = "none" /\ \A k \in BotMsgs : k < m => msgKind[k] # "none"
    ELSE NoMsg

Posted == {m \in BotMsgs : msgKind[m] # "none"}

\* the records and histories after deployment
InitStore ==
  /\ reminded = [t \in Threads |-> "no"]
  /\ dryRun \in BOOLEAN
  /\ pendingAction = [m \in BotMsgs |-> Null]
  /\ createRef = [t \in Threads |-> NoMsg]
  /\ threadState = [t \in Threads |-> "none"]
  /\ replyLog = [t \in Threads |-> <<>>]
  /\ pmThread = NoPm
  /\ msgKind = [m \in BotMsgs |-> "none"]
  /\ notion = [m \in BotMsgs |-> <<>>]
  /\ proc = [p \in Procs |-> Idle]
  /\ threadUsed = [t \in Threads |-> FALSE]
  /\ consumed = [m \in BotMsgs |-> "no"]
  /\ open = [t \in Threads |-> FALSE]

\* the deployed worker: fetch() always passes its ExecutionContext
\* no library call is under way and no key outside the workflow records is set
NoLibrary == cache = <<>> /\ call = <<>>

Init == hasCtx = TRUE /\ NoLibrary /\ InitStore


\* ------------------------------------------------- executing the mutations
NoRun == [calls |-> <<>>, results |-> <<>>]

\* variant: the loop gives up on the actions that follow a failed call
ExecuteStep_StopAfterFailure(actions, i, dry, fails, acc) ==
  IF \E j \in 1 .. (i - 1) : j \in fails /\ ~dry /\ actions[j] # "update_assignee"
    THEN acc
    ELSE LET a == actions[i]
             attempt(api) ==
               IF dry
                 THEN [acc EXCEPT !.results = Append(@, [i |-> i, r |-> "dry"])]
                 ELSE [calls |-> Append(acc.calls, [i |-> i, api |-> api]),
                       results |-> Append(acc.results,
                                          [i |-> i, r |-> IF i \in fails THEN "failed" ELSE "ok"])]
         IN  IF a = "update_assignee"
               THEN [acc EXCEPT !.results = Append(@, [i |-> i, r |-> "inactive"])]
             ELSE IF a = "update_sprint"
               THEN attempt("updateTaskSprint")
             ELSE IF a \in {"update_due", "update_sp", "update_status"}
               THEN attempt("updateTaskPage")
             ELSE acc

\* one iteration of the loop of executeNotionActions: action i of the list,
\* with `fails` the indices whose Notion call throws
ExecuteStep(actions, i, dry, fails, acc) ==
  LET a == actions[i]
      attempt(api) ==
        IF dry
          THEN [acc EXCEPT !.results = Append(@, [i |-> i, r |-> "dry"])]
          ELSE [calls |-> Append(acc.calls, [i |-> i, api |-> api]),
                results |-> Append(acc.results,
                                   [i |-> i, r |-> IF i \in fails THEN "failed" ELSE "ok"])]
  IN  IF a = "update_assignee"
        THEN [acc EXCEPT !.results = Append(@, [i |-> i, r |-> "inactive"])]
      ELSE IF a = "update_sprint"
        THEN attempt("updateTaskSprint")
      ELSE IF a \in {"update_due", "update_sp", "update_status"}
        THEN attempt("updateTaskPage")
      ELSE acc

RECURSIVE ExecuteLoop(_, _, _, _, _)
ExecuteLoop(actions, i, dry, fails, acc) ==
  IF i > Len(actions)
    THEN acc
    ELSE ExecuteLoop(actions, i + 1, dry, fails, ExecuteStep(actions, i, dry, fails, acc))

executeNotionActions(actions, dry, fails) == ExecuteLoop(actions, 1, dry, fails, NoRun)

\* variant: the creation path does not test config.dryRun
executeTaskCreation_IgnoresDryRun(i, dry, fails) ==
  [calls |-> << [i |-> i, api |-> "createTaskPage"] >>,
   results |-> << [i |-> i, r |-> IF i \in fails THEN "failed" ELSE "ok"] >>]

\* executeTaskCreation for action i: dry run creates nothing, a failed
\* createTaskPage is caught and reported in the message
executeTaskCreation(i, dry, fails) ==
  IF dry
    THEN [calls |-> <<>>, results |-> << [i |-> i, r |-> "dry"] >>]
    ELSE [calls |-> << [i |-> i, api |-> "createTaskPage"] >>,
          results |-> << [i |-> i, r |-> IF i \in fails THEN "failed" ELSE "ok"] >>]

\* Promise.all over the create_task actions: the calls are issued in list order
RECURSIVE CreateAll(_, _, _, _, _)
CreateAll(actions, i, dry, fails, acc) ==
  IF i > Len(actions)
    THEN acc
    ELSE LET one == IF actions[i] = "create_task"
                      THEN executeTaskCreation(i, dry, fails)
                      ELSE NoRun
         IN  CreateAll(actions, i + 1, dry, fails,
                       [calls |-> acc.calls \o one.calls,
                        results |-> acc.results \o one.results])

HasCreate(actions) == \E i \in 1 .. Len(actions) : actions[i] = "create_task"

\* what handleReactionAdded runs for an approved PendingAction
ReactionRun(pending, dry, fails) ==
  IF HasCreate(pending.actions)
    THEN CreateAll(pending.actions, 1, dry, fails, NoRun)
    ELSE executeNotionActions(pending.actions, dry, fails)

\* variant: the button channel issues its calls in the opposite order
RECURSIVE Reverse(_)
Reverse(q) == IF q = <<>> THEN <<>> ELSE Append(Reverse(Tail(q)), Head(q))
ButtonRun_Reversed(pending, dry, fails) ==
  LET run == IF HasCreate(pending.actions)
               THEN CreateAll(pending.actions, 1, dry, fails, NoRun)
               ELSE executeNotionActions(pending.actions, dry, fails)
  IN  [run EXCEPT !.calls = Reverse(@)]

\* what handleTaskActionButton runs for an approved PendingAction
ButtonRun(pending, dry, fails) ==
  IF HasCreate(pending.actions)
    THEN CreateAll(pending.actions, 1, dry, fails, NoRun)
    ELSE executeNotionActions(pending.actions, dry, fails)

\* the task data source after the handler `via` has run the action list
\* `actions` while handling message m: the calls made on it, in order
Apply(m, via, actions, run) ==
  [notion EXCEPT ![m] = Append(@, [via |-> via, actions |-> actions, calls |-> run.calls])]

\* ----------------------------------------------------------- invocations
\* what the caller of a dispatcher gets once the handler has settled: with
\* ctx the work is given to ctx.waitUntil with a catch and "ok" is returned;
\* without ctx the work itself is awaited, and its rejection is the
\* dispatcher's own (neither handleHttp nor fetch catches it)
Acknowledgement(ctx, out) ==
  IF ctx THEN "ok"
  ELSE IF out = "thrown" THEN "error" ELSE "ok"

Goto(p, pc) == proc' = [proc EXCEPT ![p].pc = pc]
Finish(p) == proc' = [proc EXCEPT ![p] = Idle]
\* the handler's promise rejects: bg() logs it when ctx.waitUntil holds the
\* work, and returns the rejected promise to the awaiting dispatcher otherwise
Throw(p) ==
  proc' = [proc EXCEPT ![p] = [Idle EXCEPT !.out = "thrown",
                                           !.ack = Acknowledgement(hasCtx, "thrown")]]
At(p, pc) == proc[p].pc = pc

\* reaction_added event on message m, dispatched to handleReactionAdded
ReactionAddedEvent(p, m) ==
  /\ At(p, "idle")
  /\ m \in Posted
  /\ proc' = [proc EXCEPT ![p] = [Idle EXCEPT !.pc = "r_get", !.h = "reaction",
                                               !.m = m, !.late = consumed[m]]]
  /\ UNCHANGED <<cache, call, hasCtx, reminded, dryRun, store, msgKind, notion, threadUsed, consumed, open>>

\* getPendingAction(channel, messageTs)
ReactionGetPending(p) ==
  /\ At(p, "r_get")
  /\ LET pending == pendingAction[proc[p].m] IN
       IF pending = Null
         THEN /\ Goto(p, "r_pm")
              /\ UNCHANGED open
         ELSE /\ proc' = [proc EXCEPT ![p].pc = "r_exec", ![p].pending = pending]
              /\ open' = [t \in Threads |-> IF t = pending.threadTs THEN FALSE ELSE open[t]]
  /\ UNCHANGED <<cache, call, hasCtx, reminded, dryRun, store, msgKind, notion, threadUsed, consumed>>

\* no PendingAction: is the message today's pending PM report?
ReactionGetPmThread(p) ==
  /\ At(p, "r_pm")
  /\ IF pmThread.state = "pending" /\ pmThread.ts = proc[p].m
       THEN proc' = [proc EXCEPT ![p].pc = "r_pmexec", ![p].pm = pmThread]
       ELSE Finish(p)
  /\ UNCHANGED <<cache, call, hasCtx, reminded, dryRun, store, msgKind, notion, threadUsed, consumed, open>>

\* interpretPmReply on the canned approval, then executeNotionActions
ReactionPmExecute(p) ==
  /\ At(p, "r_pmexec")
  /\ \/ /\ Throw(p)                        \* interpretPmReply throws
        /\ UNCHANGED notion
     \/ \E acts \in PmProposals : \E fails \in SUBSET (1 .. Len(acts)) :
          LET run == executeNotionActions(acts, dryRun, fails) IN
            /\ notion' = Apply(proc[p].m, proc[p].h, acts, run)
            /\ Goto(p, "r_pmsave")
  /\ UNCHANGED <<cache, call, hasCtx, reminded, dryRun, store, msgKind, threadUsed, consumed, open>>

\* savePmThread(today, {...pmThread, state: "processed"})
ReactionPmSave(p) ==
  /\ At(p, "r_pmsave")
  /\ pmThread' = [proc[p].pm EXCEPT !.state = "processed"]
  /\ consumed' = [consumed EXCEPT ![proc[p].pm.ts] = "processed"]
  /\ Finish(p)
  /\ UNCHANGED <<cache, call, hasCtx, reminded, dryRun, pendingAction, createRef, threadState, replyLog, msgKind,
                 notion, threadUsed, open>>

\* the creation path (Promise.all of executeTaskCreation) or executeNotionActions
ReactionExecute(p) ==
  /\ At(p, "r_exec")
  /\ \/ /\ HasCreate(proc[p].pending.actions)   \* the user-map fetch throws
        /\ Throw(p)
        /\ UNCHANGED notion
     \/ \E fails \in SUBSET (1 .. Len(proc[p].pending.actions)) :
          LET run == ReactionRun(proc[p].pending, dryRun, fails) IN
            /\ notion' = Apply(proc[p].m, proc[p].h, proc[p].pending.actions, run)
            /\ proc' = [proc EXCEPT ![p].pc = "r_del", ![p].results = run.results]
  /\ UNCHANGED <<cache, call, hasCtx, reminded, dryRun, store, msgKind, threadUsed, consumed, open>>

\* variant: the reaction handler leaves the PendingAction in the store
ReactionDeletePending_Keep(p) ==
  /\ At(p, "r_del")
  /\ IF proc[p].pending.threadTs # NoThread
       THEN Goto(p, "r_delref") /\ UNCHANGED consumed
       ELSE Finish(p) /\ consumed' = [consumed EXCEPT ![proc[p].m] = "approved"]
  /\ UNCHANGED <<cache, call, hasCtx, reminded, dryRun, store, msgKind, notion, threadUsed, open>>

\* deletePendingAction(channel, messageTs)
ReactionDeletePending(p) ==
  /\ At(p, "r_del")
  /\ pendingAction' = [pendingAction EXCEPT ![proc[p].m] = Null]
  /\ IF proc[p].pending.threadTs # NoThread
       THEN Goto(p, "r_delref") /\ UNCHANGED consumed
       ELSE Finish(p) /\ consumed' = [consumed EXCEPT ![proc[p].m] = "approved"]
  /\ UNCHANGED <<cache, call, hasCtx, reminded, dryRun, createRef, threadState, replyLog, pmThread, msgKind,
                 notion, threadUsed, open>>

\* deletePendingCreateRef(channel, pending.threadTs)
ReactionDeleteRef(p) ==
  /\ At(p, "r_delref")
  /\ createRef' = [createRef EXCEPT ![proc[p].pending.threadTs] = NoMsg]
  /\ Finish(p)
  /\ consumed' = [consumed EXCEPT ![proc[p].m] = "approved"]
  /\ UNCHANGED <<cache, call, hasCtx, reminded, dryRun, pendingAction, threadState, replyLog, pmThread, msgKind,
                 notion, threadUsed, open>>


\* block_actions task_action_approve / task_action_cancel on confirmation
\* message m, dispatched to handleTaskActionButton(approved)
TaskActionButtonEvent(p, m, approved) ==
  /\ At(p, "idle")
  /\ msgKind[m] = "confirm"
  /\ proc' = [proc EXCEPT ![p] = [Idle EXCEPT !.pc = "b_get",
                                               !.h = IF approved THEN "approve" ELSE "cancel",
                                               !.m = m, !.late = consumed[m]]]
  /\ UNCHANGED <<cache, call, hasCtx, reminded, dryRun, store, msgKind, notion, threadUsed, consumed, open>>

\* variant: a cancel click runs the actions like an approve click
ButtonGetPending_CancelExecutes(p) ==
  /\ At(p, "b_get")
  /\ LET pending == pendingAction[proc[p].m] IN
       IF pending = Null
         THEN /\ Finish(p)
              /\ UNCHANGED open
         ELSE /\ proc' = [proc EXCEPT ![p].pc = "b_exec", ![p].pending = pending]
              /\ open' = [t \in Threads |-> IF t = pending.threadTs THEN FALSE ELSE open[t]]
  /\ UNCHANGED <<cache, call, hasCtx, reminded, dryRun, store, msgKind, notion, threadUsed, consumed>>

\* getPendingAction(channel, messageTs); absent: return
ButtonGetPending(p) ==
  /\ At(p, "b_get")
  /\ LET pending == pendingAction[proc[p].m] IN
       IF pending = Null
         THEN /\ Finish(p)
              /\ UNCHANGED open
         ELSE /\ proc' = [proc EXCEPT ![p].pc = IF proc[p].h = "approve" THEN "b_exec" ELSE "b_del",
                                       ![p].pending = pending]
              /\ open' = [t \in Threads |-> IF t = pending.threadTs THEN FALSE ELSE open[t]]
  /\ UNCHANGED <<cache, call, hasCtx, reminded, dryRun, store, msgKind, notion, threadUsed, consumed>>

\* approved: the creation path or executeNotionActions
ButtonExecute(p) ==
  /\ At(p, "b_exec")
  /\ \/ /\ HasCreate(proc[p].pending.actions)   \* the user-map fetch throws
        /\ Throw(p)
        /\ UNCHANGED notion
     \/ \E fails \in SUBSET (1 .. Len(proc[p].pending.actions)) :
          LET run == ButtonRun(proc[p].pending, dryRun, fails) IN
            /\ notion' = Apply(proc[p].m, proc[p].h, proc[p].pending.actions, run)
            /\ proc' = [proc EXCEPT ![p].pc = "b_del", ![p].results = run.results]
  /\ UNCHANGED <<cache, call, hasCtx, reminded, dryRun, store, msgKind, threadUsed, consumed, open>>

\* deletePendingAction(channel, messageTs), on approve and on cancel
\* (on cancel the chatUpdate before it may throw: nothing is deleted)
ButtonDeletePending(p) ==
  /\ At(p, "b_del")
  /\ \/ /\ proc[p].h = "cancel"
        /\ Throw(p)
        /\ UNCHANGED <<pendingAction, consumed>>
     \/ /\ pendingAction' = [pendingAction EXCEPT ![proc[p].m] = Null]
        /\ IF proc[p].pending.threadTs # NoThread
             THEN Goto(p, "b_delref") /\ UNCHANGED consumed
             ELSE /\ Finish(p)
                  /\ consumed' = [consumed EXCEPT ![proc[p].m] =
                                    IF proc[p].h = "approve" THEN "approved" ELSE "cancelled"]
  /\ UNCHANGED <<cache, call, hasCtx, reminded, dryRun, createRef, threadState, replyLog, pmThread, msgKind,
                 notion, threadUsed, open>>

\* deletePendingCreateRef(channel, pending.threadTs)
ButtonDeleteRef(p) ==
  /\ At(p, "b_delref")
  /\ createRef' = [createRef EXCEPT ![proc[p].pending.threadTs] = NoMsg]
  /\ Finish(p)
  /\ consumed' = [consumed EXCEPT ![proc[p].m] =
                    IF proc[p].h = "approve" THEN "approved" ELSE "cancelled"]
  /\ UNCHANGED <<cache, call, hasCtx, reminded, dryRun, pendingAction, threadState, replyLog, pmThread, msgKind,
                 notion, threadUsed, open>>

\* block_actions task_action_modify: handleTaskModifyButton rewrites the
\* message and asks for the change in the thread; it touches no record
TaskModifyButtonEvent(p, m) ==
  /\ At(p, "idle")
  /\ msgKind[m] = "confirm"
  /\ proc' = [proc EXCEPT ![p] = [Idle EXCEPT !.pc = "mod_post", !.h = "modify", !.m = m]]
  /\ UNCHANGED <<cache, call, hasCtx, reminded, dryRun, store, msgKind, notion, threadUsed, consumed, open>>

handleTaskModifyButton(p) ==
  /\ At(p, "mod_post")
  /\ Finish(p)
  /\ UNCHANGED <<cache, call, hasCtx, reminded, dryRun, store, msgKind, notion, threadUsed, consumed, open>>

\* block_actions pm_report_approve on the PM report message m
PmReportButtonEvent(p, m) ==
  /\ At(p, "idle")
  /\ msgKind[m] = "report"
  /\ proc' = [proc EXCEPT ![p] = [Idle EXCEPT !.pc = "pb_get", !.h = "pm_button",
                                               !.m = m, !.late = consumed[m]]]
  /\ UNCHANGED <<cache, call, hasCtx, reminded, dryRun, store, msgKind, notion, threadUsed, consumed, open>>

\* variant: the button handler acts on the day's record whatever its state
PmButtonGetPmThread_NoStateTest(p) ==
  /\ At(p, "pb_get")
  /\ IF pmThread.ts = proc[p].m
       THEN proc' = [proc EXCEPT ![p].pc = "pb_exec", ![p].pm = pmThread]
       ELSE Finish(p)
  /\ UNCHANGED <<cache, call, hasCtx, reminded, dryRun, store, msgKind, notion, threadUsed, consumed, open>>

\* getPmThread(today) and the pending/channel/ts test
PmButtonGetPmThread(p) ==
  /\ At(p, "pb_get")
  /\ IF pmThread.state = "pending" /\ pmThread.ts = proc[p].m
       THEN proc' = [proc EXCEPT ![p].pc = "pb_exec", ![p].pm = pmThread]
       ELSE Finish(p)
  /\ UNCHANGED <<cache, call, hasCtx, reminded, dryRun, store, msgKind, notion, threadUsed, consumed, open>>

PmButtonExecute(p) ==
  /\ At(p, "pb_exec")
  /\ \/ /\ Throw(p)                        \* interpretPmReply throws
        /\ UNCHANGED notion
     \/ \E acts \in PmProposals : \E fails \in SUBSET (1 .. Len(acts)) :
          LET run == executeNotionActions(acts, dryRun, fails) IN
            /\ notion' = Apply(proc[p].m, proc[p].h, acts, run)
            /\ Goto(p, "pb_save")
  /\ UNCHANGED <<cache, call, hasCtx, reminded, dryRun, store, msgKind, threadUsed, consumed, open>>

PmButtonSave(p) ==
  /\ At(p, "pb_save")
  /\ pmThread' = [proc[p].pm EXCEPT !.state = "processed"]
  /\ consumed' = [consumed EXCEPT ![proc[p].pm.ts] = "processed"]
  /\ Finish(p)
  /\ UNCHANGED <<cache, call, hasCtx, reminded, dryRun, pendingAction, createRef, threadState, replyLog, msgKind,
                 notion, threadUsed, open>>


\* ------------------------------------------------------------ handleMention
\* room left in the thread's ReplyLog for the invocations already running
CanReply(t) ==
  Len(replyLog[t]) + Cardinality({q \in Procs : proc[q].pc # "idle" /\ proc[q].t = t})
    < MaxReplies

\* app_mention event in thread t
AppMentionEvent(p, t) ==
  /\ At(p, "idle")
  /\ CanReply(t)
  /\ proc' = [proc EXCEPT ![p] = [Idle EXCEPT !.pc = "m_read", !.h = "mention", !.t = t]]
  /\ threadUsed' = [threadUsed EXCEPT ![t] = TRUE]
  /\ UNCHANGED <<cache, call, hasCtx, reminded, dryRun, store, msgKind, notion, consumed, open>>

\* the parallel fetch: getThreadState and getPendingCreateRef of the thread
\* (fetchCurrentSprintTasksSummary before it may throw: caught, error reply)
MentionFetch(p) ==
  /\ At(p, "m_read")
  /\ \/ Finish(p)
     \/ proc' = [proc EXCEPT ![p].ts = threadState[proc[p].t],
                             ![p].ref = createRef[proc[p].t],
                             ![p].pc = IF threadState[proc[p].t] # "none" THEN "m_append"
                                       ELSE IF createRef[proc[p].t] # NoMsg THEN "m_getold"
                                       ELSE "m_llm"]
  /\ UNCHANGED <<cache, call, hasCtx, reminded, dryRun, store, msgKind, notion, threadUsed, consumed, open>>

\* tracked check-in thread: appendReply(channel, threadTs, {text: userText, ...})
MentionAppendReply(p) ==
  /\ At(p, "m_append")
  /\ replyLog' = [replyLog EXCEPT ![proc[p].t] =
                    Append(@, [via |-> "mention", verdict |-> "none"])]
  /\ Goto(p, "m_savets")
  /\ UNCHANGED <<cache, call, hasCtx, reminded, dryRun, pendingAction, createRef, threadState, pmThread, msgKind,
                 notion, threadUsed, consumed, open>>

\* saveThreadState(channel, threadTs, {...threadState, state: "replied"})
MentionSaveThreadState(p) ==
  /\ At(p, "m_savets")
  /\ threadState' = [threadState EXCEPT ![proc[p].t] = "replied"]
  /\ Goto(p, IF proc[p].ref # NoMsg THEN "m_getold" ELSE "m_llm")
  /\ UNCHANGED <<cache, call, hasCtx, reminded, dryRun, pendingAction, createRef, replyLog, pmThread, msgKind,
                 notion, threadUsed, consumed, open>>

\* pendingCreateRef found: getPendingAction(channel, pendingCreateRef.confirmMsgTs)
MentionGetOldPending(p) ==
  /\ At(p, "m_getold")
  /\ proc' = [proc EXCEPT ![p].old = pendingAction[proc[p].ref],
                          ![p].pc = IF pendingAction[proc[p].ref] = Null
                                      THEN "m_heal" ELSE "m_llm"]
  /\ UNCHANGED <<cache, call, hasCtx, reminded, dryRun, store, msgKind, notion, threadUsed, consumed, open>>

\* variant: the stale BackRef is left in the store
MentionCleanStaleRef_Keep(p) ==
  /\ At(p, "m_heal")
  /\ Goto(p, "m_llm")
  /\ UNCHANGED <<cache, call, hasCtx, reminded, dryRun, store, msgKind, notion, threadUsed, consumed, open>>

\* the PendingAction no longer exists: deletePendingCreateRef (stale ref)
MentionCleanStaleRef(p) ==
  /\ At(p, "m_heal")
  /\ createRef' = [createRef EXCEPT ![proc[p].t] = NoMsg]
  /\ Goto(p, "m_llm")
  /\ UNCHANGED <<cache, call, hasCtx, reminded, dryRun, pendingAction, threadState, replyLog, pmThread, msgKind,
                 notion, threadUsed, consumed, open>>

\* the old proposal handed to interpretMention
pendingCreateTasks(p) ==
  IF proc[p].old # Null /\ HasCreate(proc[p].old.actions) THEN proc[p].old.actions ELSE <<>>
pendingUpdateActions(p) ==
  IF proc[p].old # Null /\ ~HasCreate(proc[p].old.actions) THEN proc[p].old.actions ELSE <<>>

\* does the branch taken for result `res` clean up the old proposal first?
CleansUpOld(p, res) ==
  \/ res.intent = "create_task" /\ proc[p].ref # NoMsg
  \/ res.intent = "update" /\ proc[p].ref # NoMsg
       /\ proc[p].old # Null /\ ~HasCreate(proc[p].old.actions)

\* interpretMention (may throw: caught) and the branch on its result
MentionInterpret(p) ==
  /\ At(p, "m_llm")
  /\ \/ Finish(p)
     \/ \E res \in Intents :
          IF res.actions = <<>>
            THEN Finish(p)                 \* query, unknown, or fields missing
            ELSE proc' = [proc EXCEPT ![p].res = res,
                                      ![p].pc = IF CleansUpOld(p, res) THEN "m_delpa"
                                                ELSE "m_post"]
  /\ UNCHANGED <<cache, call, hasCtx, reminded, dryRun, store, msgKind, notion, threadUsed, consumed, open>>

\* deletePendingAction(channel, pendingCreateRef.confirmMsgTs)
MentionDeleteOldPending(p) ==
  /\ At(p, "m_delpa")
  /\ pendingAction' = [pendingAction EXCEPT ![proc[p].ref] = Null]
  /\ Goto(p, "m_delref")
  /\ UNCHANGED <<cache, call, hasCtx, reminded, dryRun, createRef, threadState, replyLog, pmThread, msgKind,
                 notion, threadUsed, consumed, open>>

\* deletePendingCreateRef(channel, threadTs)
MentionDeleteOldRef(p) ==
  /\ At(p, "m_delref")
  /\ createRef' = [createRef EXCEPT ![proc[p].t] = NoMsg]
  /\ Goto(p, "m_post")
  /\ UNCHANGED <<cache, call, hasCtx, reminded, dryRun, pendingAction, threadState, replyLog, pmThread, msgKind,
                 notion, threadUsed, consumed, open>>

\* chatPostMessage of the confirmation (may throw: caught, nothing saved)
MentionPostConfirm(p) ==
  /\ At(p, "m_post")
  /\ \/ Finish(p) /\ UNCHANGED msgKind
     \/ /\ FreshTs # NoMsg
        /\ msgKind' = [msgKind EXCEPT ![FreshTs] = "confirm"]
        /\ proc' = [proc EXCEPT ![p].m = FreshTs, ![p].pc = "m_savepa"]
  /\ UNCHANGED <<cache, call, hasCtx, reminded, dryRun, store, notion, threadUsed, consumed, open>>

\* variant: handleMention applies the proposed actions as it saves them
MentionSavePending_Direct(p) ==
  /\ At(p, "m_savepa")
  /\ pendingAction' = [pendingAction EXCEPT ![proc[p].m] =
                         [actions |-> proc[p].res.actions, threadTs |-> proc[p].t]]
  /\ notion' = Apply(proc[p].m, proc[p].h, proc[p].res.actions,
                     executeNotionActions(proc[p].res.actions, dryRun, {}))
  /\ Goto(p, "m_saveref")
  /\ UNCHANGED <<cache, call, hasCtx, reminded, dryRun, createRef, threadState, replyLog, pmThread, msgKind,
                 threadUsed, consumed, open>>

\* savePendingAction(confirmMsg.channel, confirmMsg.ts, {actions, ..., threadTs})
MentionSavePending(p) ==
  /\ At(p, "m_savepa")
  /\ pendingAction' = [pendingAction EXCEPT ![proc[p].m] =
                         [actions |-> proc[p].res.actions, threadTs |-> proc[p].t]]
  /\ Goto(p, "m_saveref")
  /\ UNCHANGED <<cache, call, hasCtx, reminded, dryRun, createRef, threadState, replyLog, pmThread, msgKind,
                 notion, threadUsed, consumed, open>>

\* savePendingCreateRef(channel, threadTs, {confirmMsgTs: confirmMsg.ts})
MentionSaveRef(p) ==
  /\ At(p, "m_saveref")
  /\ createRef' = [createRef EXCEPT ![proc[p].t] = proc[p].m]
  /\ open' = [open EXCEPT ![proc[p].t] = TRUE]
  /\ Finish(p)
  /\ UNCHANGED <<cache, call, hasCtx, reminded, dryRun, pendingAction, threadState, replyLog, pmThread, msgKind,
                 notion, threadUsed, consumed>>


\* ------------------------------------------------ plain thread messages
\* message event in thread t (no bot_id, no subtype, bot not mentioned)
ThreadMessageEvent(p, t) ==
  /\ At(p, "idle")
  /\ CanReply(t)
  /\ proc' = [proc EXCEPT ![p] = [Idle EXCEPT !.pc = "route", !.h = "message",
                                               !.t = t, !.m = t]]
  /\ threadUsed' = [threadUsed EXCEPT ![t] = TRUE]
  /\ UNCHANGED <<cache, call, hasCtx, reminded, dryRun, store, msgKind, notion, consumed, open>>

\* variant: a thread with a ThreadState goes to the check-in handlers first
RouteThreadMessage_AssigneeFirst(p) ==
  /\ At(p, "route")
  /\ Goto(p, IF threadState[proc[p].t] = "none" /\ createRef[proc[p].t] # NoMsg
               THEN "m_read" ELSE "a_get")
  /\ UNCHANGED <<cache, call, hasCtx, reminded, dryRun, store, msgKind, notion, threadUsed, consumed, open>>

\* handleProjectSelectionReply finds no pending selection (none is ever saved)
\* and returns false; then getPendingCreateRef decides the route
RouteThreadMessage(p) ==
  /\ At(p, "route")
  /\ Goto(p, IF createRef[proc[p].t] # NoMsg THEN "m_read" ELSE "a_get")
  /\ UNCHANGED <<cache, call, hasCtx, reminded, dryRun, store, msgKind, notion, threadUsed, consumed, open>>

\* message event in the thread of PM report m: no BackRef and no ThreadState
\* exist under a report ts, so the chain reaches handlePmReply
PmThreadMessageEvent(p, m) ==
  /\ At(p, "idle")
  /\ msgKind[m] = "report"
  /\ proc' = [proc EXCEPT ![p] = [Idle EXCEPT !.pc = "p_get", !.h = "message",
                                               !.m = m, !.late = consumed[m]]]
  /\ UNCHANGED <<cache, call, hasCtx, reminded, dryRun, store, msgKind, notion, threadUsed, consumed, open>>

\* handleAssigneeReply: getThreadState
AssigneeGetThreadState(p) ==
  /\ At(p, "a_get")
  /\ proc' = [proc EXCEPT ![p].ts = threadState[proc[p].t],
                          ![p].pc = IF threadState[proc[p].t] = "none" THEN "p_get"
                                    ELSE "a_gate"]
  /\ UNCHANGED <<cache, call, hasCtx, reminded, dryRun, store, msgKind, notion, threadUsed, consumed, open>>

\* variant: a throwing classifier counts as valid in a replied thread too
ReplyAccepted_FailOpenAlways(ts, verdict) ==
  verdict \in {"sufficient", "error"}

\* is the reply saved, given the state read and the gate's outcome?
\* pending: a throwing classifier counts as valid; replied: it counts as not
ReplyAccepted(ts, verdict) ==
  IF ts = "replied"
    THEN verdict = "sufficient"
    ELSE verdict \in {"sufficient", "error"}

\* evaluateAssigneeReply: sufficient, insufficient, or the classifier throws
AssigneeEvaluate(p) ==
  /\ At(p, "a_gate")
  /\ \E v \in {"sufficient", "insufficient", "error"} :
       proc' = [proc EXCEPT ![p].verdict = v,
                            ![p].pc = IF ReplyAccepted(proc[p].ts, v) THEN "a_append"
                                      ELSE "p_get"]
  /\ UNCHANGED <<cache, call, hasCtx, reminded, dryRun, store, msgKind, notion, threadUsed, consumed, open>>

AssigneeAppendReply(p) ==
  /\ At(p, "a_append")
  /\ replyLog' = [replyLog EXCEPT ![proc[p].t] =
                    Append(@, [via |-> "assignee", verdict |-> proc[p].verdict])]
  /\ Goto(p, IF proc[p].ts = "replied" THEN "p_get" ELSE "a_save")
  /\ UNCHANGED <<cache, call, hasCtx, reminded, dryRun, pendingAction, createRef, threadState, pmThread, msgKind,
                 notion, threadUsed, consumed, open>>

AssigneeSaveThreadState(p) ==
  /\ At(p, "a_save")
  /\ threadState' = [threadState EXCEPT ![proc[p].t] = "replied"]
  /\ Goto(p, "p_get")
  /\ UNCHANGED <<cache, call, hasCtx, reminded, dryRun, pendingAction, createRef, replyLog, pmThread, msgKind,
                 notion, threadUsed, consumed, open>>

\* handlePmReply: getPmThread(today) and the pending/channel/ts test
PmReplyGetPmThread(p) ==
  /\ At(p, "p_get")
  /\ IF pmThread.state = "pending" /\ pmThread.ts = proc[p].m
       THEN proc' = [proc EXCEPT ![p].pc = "p_llm", ![p].pm = pmThread]
       ELSE Finish(p)
  /\ UNCHANGED <<cache, call, hasCtx, reminded, dryRun, store, msgKind, notion, threadUsed, consumed, open>>

\* interpretPmReply on the reply text, then the confirmation message
\* (either may throw: caught, nothing saved)
PmReplyInterpret(p) ==
  /\ At(p, "p_llm")
  /\ \/ Finish(p) /\ UNCHANGED msgKind
     \/ /\ proc' = [proc EXCEPT ![p].pc = "p_savepm"]   \* no actions found
        /\ UNCHANGED msgKind
     \/ \E acts \in PmProposals \ { <<>> } :
          /\ FreshTs # NoMsg
          /\ msgKind' = [msgKind EXCEPT ![FreshTs] = "confirm"]
          /\ proc' = [proc EXCEPT ![p].pc = "p_savepa", ![p].ref = FreshTs,
                                  ![p].res = [intent |-> "update", actions |-> acts]]
  /\ UNCHANGED <<cache, call, hasCtx, reminded, dryRun, store, notion, threadUsed, consumed, open>>

\* savePendingAction(confirmMsg.channel, confirmMsg.ts, {actions, ...}): no threadTs
PmReplySavePending(p) ==
  /\ At(p, "p_savepa")
  /\ pendingAction' = [pendingAction EXCEPT ![proc[p].ref] =
                         [actions |-> proc[p].res.actions, threadTs |-> NoThread]]
  /\ Goto(p, "p_savepm")
  /\ UNCHANGED <<cache, call, hasCtx, reminded, dryRun, createRef, threadState, replyLog, pmThread, msgKind,
                 notion, threadUsed, consumed, open>>

PmReplySavePmThread(p) ==
  /\ At(p, "p_savepm")
  /\ pmThread' = [proc[p].pm EXCEPT !.state = "processed"]
  /\ consumed' = [consumed EXCEPT ![proc[p].pm.ts] = "processed"]
  /\ Finish(p)
  /\ UNCHANGED <<cache, call, hasCtx, reminded, dryRun, pendingAction, createRef, threadState, replyLog, msgKind,
                 notion, threadUsed, open>>

\* ------------------------------------------------ whose mention is it
\* the accounts a message text can mention: the bot's own id and another user's
Accounts == {"bot", "other"}

\* isBotMentioned: with payload.authorizations the text is searched for the
\* bot's own id; without it the test is the pattern of any mention
isBotMentioned(ids, auth) ==
  IF auth THEN "bot" \in ids ELSE ids # {}

\* a user writes in thread t a text that mentions the accounts ids; Slack
\* delivers the message event, and the app_mention event when the bot is
\* among them; auth: the payload carries authorizations
UserPostsInThread(p, t, ids, auth) ==
  \/ /\ "bot" \in ids                     \* message skipped, app_mention handled
     /\ isBotMentioned(ids, auth)
     /\ AppMentionEvent(p, t)
  \/ /\ ~isBotMentioned(ids, auth)        \* the plain-thread-message chain
     /\ ThreadMessageEvent(p, t)
  \/ /\ "bot" \notin ids                  \* message skipped, no app_mention comes
     /\ isBotMentioned(ids, auth)
     /\ At(p, "idle")
     /\ proc' = [proc EXCEPT ![p] = [Idle EXCEPT !.gate = "unrouted"]]
     /\ UNCHANGED <<cache, call, hasCtx, reminded, dryRun, store, msgKind, notion, threadUsed, consumed, open>>

\* ------------------------------------------------------------ handleEodButton
\* block_actions eod_* on the end-of-day reminder posted in check-in thread t
EodButtonEvent(p, t) ==
  /\ At(p, "idle")
  /\ threadState[t] # "none"
  /\ CanReply(t)
  /\ proc' = [proc EXCEPT ![p] = [Idle EXCEPT !.pc = "e_get", !.h = "eod", !.t = t]]
  /\ UNCHANGED <<cache, call, hasCtx, reminded, dryRun, store, msgKind, notion, threadUsed, consumed, open>>

EodGetThreadState(p) ==
  /\ At(p, "e_get")
  /\ IF threadState[proc[p].t] = "pending"
       THEN Goto(p, "e_save")
       ELSE Finish(p)
  /\ UNCHANGED <<cache, call, hasCtx, reminded, dryRun, store, msgKind, notion, threadUsed, consumed, open>>

EodSaveThreadState(p) ==
  /\ At(p, "e_save")
  /\ threadState' = [threadState EXCEPT ![proc[p].t] = "replied"]
  /\ Goto(p, "e_append")
  /\ UNCHANGED <<cache, call, hasCtx, reminded, dryRun, pendingAction, createRef, replyLog, pmThread, msgKind,
                 notion, threadUsed, consumed, open>>

EodAppendReply(p) ==
  /\ At(p, "e_append")
  /\ replyLog' = [replyLog EXCEPT ![proc[p].t] =
                    Append(@, [via |-> "eod", verdict |-> "none"])]
  /\ Finish(p)
  /\ UNCHANGED <<cache, call, hasCtx, reminded, dryRun, pendingAction, createRef, threadState, pmThread, msgKind,
                 notion, threadUsed, consumed, open>>

\* ------------------------------------------------------------ scheduled flows
\* runMorningFlow: the check-in message opens thread t and its ThreadState
\* is saved as pending (nothing is sent or saved under dryRun)
runMorningFlow(t) ==
  /\ ~dryRun
  /\ threadState[t] = "none"
  /\ ~threadUsed[t]
  /\ threadState' = [threadState EXCEPT ![t] = "pending"]
  /\ UNCHANGED <<cache, call, hasCtx, reminded, dryRun, pendingAction, createRef, replyLog, pmThread, msgKind,
                 notion, proc, threadUsed, consumed, open>>

\* runEveningFlow: the PM report is posted and savePmThread stores it pending
runEveningFlow ==
  /\ ~dryRun
  /\ FreshTs # NoMsg
  /\ msgKind' = [msgKind EXCEPT ![FreshTs] = "report"]
  /\ pmThread' = [ts |-> FreshTs, state |-> "pending"]
  /\ UNCHANGED <<cache, call, hasCtx, reminded, dryRun, pendingAction, createRef, threadState, replyLog,
                 notion, proc, threadUsed, consumed, open>>

\* the reminder loop's test on an active thread: its ReplyLog is empty
NeedsReminder(t) == threadState[t] # "none" /\ replyLog[t] = <<>>

\* variant: the reminder loop skips threads whose check-in is still pending
runReminderFlow_SkipPending(stop) ==
  /\ stop \in Threads \cup {MaxThreads + 1}
  /\ stop \in Threads => NeedsReminder(stop) /\ ~dryRun
  /\ reminded' = [t \in Threads |->
                    IF threadState[t] = "none" \/ t > stop THEN "no"
                    ELSE IF ~NeedsReminder(t) \/ dryRun \/ threadState[t] = "pending"
                      THEN "skipped"
                    ELSE IF t < stop THEN "sent" ELSE "failed"]
  /\ UNCHANGED <<cache, call, hasCtx, dryRun, store, msgKind, notion, proc, threadUsed, consumed, open>>

\* runReminderFlow: the active threads in order; a thread with an empty
\* ReplyLog gets a reminder (only logged under dryRun), the others are
\* skipped; the chatPostMessage of thread stop throws and ends the run before
\* the threads after it (stop past the last thread: none throws)
runReminderFlow(stop) ==
  /\ stop \in Threads \cup {MaxThreads + 1}
  /\ stop \in Threads => NeedsReminder(stop) /\ ~dryRun
  /\ reminded' = [t \in Threads |->
                    IF threadState[t] = "none" \/ t > stop THEN "no"
                    ELSE IF ~NeedsReminder(t) \/ dryRun THEN "skipped"
                    ELSE IF t < stop THEN "sent" ELSE "failed"]
  /\ UNCHANGED <<cache, call, hasCtx, dryRun, store, msgKind, notion, proc, threadUsed, consumed, open>>

\* ------------------------------------------------------------ KV expiration
\* the PendingAction of message m reaches its expirationTtl while no handler
\* runs; it is put before its BackRef with the same TTL, so it goes first
PendingActionExpires(m) ==
  /\ \A p \in Procs : At(p, "idle")
  /\ pendingAction[m] # Null
  /\ pendingAction' = [pendingAction EXCEPT ![m] = Null]
  /\ open' = [t \in Threads |-> IF t = pendingAction[m].threadTs THEN FALSE ELSE open[t]]
  /\ UNCHANGED <<cache, call, hasCtx, reminded, dryRun, createRef, threadState, replyLog, pmThread, msgKind,
                 notion, proc, threadUsed, consumed>>

\* ------------------------------------------------------- the two endpoints
\* the replay window of both endpoints, in seconds
ReplayWindow == 300

\* nowSec - timestamp, in seconds: at and around the edges of the window
Skews ==
  {0, ReplayWindow, ReplayWindow + 1, 0 - ReplayWindow, 0 - (ReplayWindow + 1)}

\* values of the x-slack-retry-num header ("": the header is absent)
RetryHeaders == {"", "0", "1"}

\* parseInt(retryNum, 10) on the header values
ParseInt(h) == IF h = "1" THEN 1 ELSE 0

\* POST /slack/events: body, headers and the signing secret of the deployment
\*   json: the body parses; type: payload.type; retry: x-slack-retry-num;
\*   stamped: the timestamp header parses to a number; skew: now - timestamp;
\*   secret: SLACK_SIGNING_SECRET is set; sig: the signature verifies;
\*   event: payload.event.type
EventRequests ==
  [json : BOOLEAN, type : {"url_verification", "event_callback", "app_rate_limited"},
   retry : RetryHeaders, stamped : BOOLEAN, skew : Skews,
   secret : BOOLEAN, sig : BOOLEAN,
   event : {"reaction_added", "app_mention", "channel_created"}]

\* POST /slack/interactions
\*   payload: the form field is missing, is not JSON, or parses;
\*   type: payload.type; action: payload.actions[0].action_id ("": no action)
InteractionRequests ==
  [stamped : BOOLEAN, skew : Skews, secret : BOOLEAN, sig : BOOLEAN,
   payload : {"missing", "invalid", "parsed"},
   type : {"block_actions", "view_submission"},
   action : {"", "task_action_approve", "task_action_cancel"}]

Abs(x) == IF x < 0 THEN 0 - x ELSE x

\* variant: only timestamps in the past are tested against the window
TooOld_PastOnly(req) == req.stamped /\ req.skew > ReplayWindow

\* Math.abs(nowSec - parseInt(timestamp, 10)) > 300 (false when NaN)
TooOld(req) == req.stamped /\ Abs(req.skew) > ReplayWindow

\* variant: the events endpoint has no redelivery guard
EventsGate_NoRetryGuard(req) ==
  IF ~req.json THEN "invalid_json"
  ELSE IF req.type = "url_verification" THEN "challenge"
  ELSE IF TooOld(req) THEN "too_old"
  ELSE IF ~req.secret THEN "no_secret"
  ELSE IF ~req.sig THEN "bad_signature"
  ELSE IF req.type # "event_callback" THEN "ignored"
  ELSE "dispatch"

\* handleSlackEvents up to the dispatch: the first test that ends the request
EventsGate(req) ==
  IF ~req.json THEN "invalid_json"
  ELSE IF req.type = "url_verification" THEN "challenge"
  ELSE IF req.retry # "" /\ ParseInt(req.retry) > 0 THEN "retry"
  ELSE IF TooOld(req) THEN "too_old"
  ELSE IF ~req.secret THEN "no_secret"
  ELSE IF ~req.sig THEN "bad_signature"
  ELSE IF req.type # "event_callback" THEN "ignored"
  ELSE "dispatch"

\* variant: the interactions endpoint does not test the signature
InteractionsGate_NoSignatureTest(req) ==
  IF TooOld(req) THEN "too_old"
  ELSE IF ~req.secret THEN "no_secret"
  ELSE IF req.payload = "missing" THEN "no_payload"
  ELSE IF req.payload = "invalid" THEN "invalid_json"
  ELSE IF req.type # "block_actions" THEN "ignored"
  ELSE IF req.action = "" THEN "ignored"
  ELSE "dispatch"

\* handleSlackInteractions up to the dispatch
InteractionsGate(req) ==
  IF TooOld(req) THEN "too_old"
  ELSE IF ~req.secret THEN "no_secret"
  ELSE IF ~req.sig THEN "bad_signature"
  ELSE IF req.payload = "missing" THEN "no_payload"
  ELSE IF req.payload = "invalid" THEN "invalid_json"
  ELSE IF req.type # "block_actions" THEN "ignored"
  ELSE IF req.action = "" THEN "ignored"
  ELSE "dispatch"

\* one request for each way the events endpoint can deal with a request
\* (requests that end at the same test with the same event and the same
\* validity of their signature act alike)
EventSamples ==
  {CHOOSE req \in EventRequests : <<EventsGate(req), req.event, req.sig>> = o :
     o \in {<<EventsGate(r), r.event, r.sig>> : r \in EventRequests}}

\* the same for the interactions endpoint
InteractionSamples ==
  {CHOOSE req \in InteractionRequests : <<InteractionsGate(req), req.action, req.sig>> = o :
     o \in {<<InteractionsGate(r), r.action, r.sig>> : r \in InteractionRequests}}

\* the Response of a request that ends before the dispatch
GateResponse(gate) ==
  CASE gate \in {"invalid_json", "too_old", "no_payload"} -> "400"
    [] gate = "bad_signature" -> "401"
    [] gate = "no_secret" -> "500"
    [] gate = "challenge" -> "challenge"
    [] OTHER -> "ok"

\* the request ends at the gate: nothing is dispatched (sig: whether its
\* signature was one that verifies, tested or not)
Answer(p, req, gate) ==
  /\ proc' = [proc EXCEPT ![p] = [Idle EXCEPT !.gate = gate, !.ack = GateResponse(gate),
                                               !.sig = IF req.sig THEN "valid" ELSE "invalid"]]
  /\ UNCHANGED <<cache, call, hasCtx, reminded, dryRun, store, msgKind, notion, threadUsed, consumed, open>>

\* POST /slack/events
handleSlackEvents(p, req) ==
  /\ At(p, "idle")
  /\ IF EventsGate(req) # "dispatch" THEN Answer(p, req, EventsGate(req))
     ELSE IF req.event = "reaction_added" THEN \E m \in BotMsgs : ReactionAddedEvent(p, m)
     ELSE IF req.event = "app_mention" THEN \E t \in Threads : AppMentionEvent(p, t)
     ELSE Answer(p, req, "ignored")

\* POST /slack/interactions
handleSlackInteractions(p, req) ==
  /\ At(p, "idle")
  /\ IF InteractionsGate(req) # "dispatch" THEN Answer(p, req, InteractionsGate(req))
     ELSE \E m \in BotMsgs : TaskActionButtonEvent(p, m, req.action = "task_action_approve")

\* ------------------------------------------------------------------- system
\* the events the two webhook endpoints dispatch
Dispatch(p) ==
  \/ \E m \in BotMsgs : ReactionAddedEvent(p, m)
  \/ \E m \in BotMsgs : TaskActionButtonEvent(p, m, TRUE)
  \/ \E m \in BotMsgs : TaskActionButtonEvent(p, m, FALSE)
  \/ \E m \in BotMsgs : TaskModifyButtonEvent(p, m)
  \/ \E m \in BotMsgs : PmReportButtonEvent(p, m)
  \/ \E m \in BotMsgs : PmThreadMessageEvent(p, m)
  \/ \E t \in Threads : AppMentionEvent(p, t)
  \/ \E t \in Threads : ThreadMessageEvent(p, t)
  \/ \E t \in Threads : EodButtonEvent(p, t)

Step(p) ==
  \/ ReactionGetPending(p) \/ ReactionGetPmThread(p) \/ ReactionPmExecute(p)
  \/ ReactionPmSave(p) \/ ReactionExecute(p) \/ ReactionDeletePending(p)
  \/ ReactionDeleteRef(p)
  \/ ButtonGetPending(p) \/ ButtonExecute(p) \/ ButtonDeletePending(p)
  \/ ButtonDeleteRef(p) \/ handleTaskModifyButton(p)
  \/ PmButtonGetPmThread(p) \/ PmButtonExecute(p) \/ PmButtonSave(p)
  \/ MentionFetch(p) \/ MentionAppendReply(p) \/ MentionSaveThreadState(p)
  \/ MentionGetOldPending(p) \/ MentionCleanStaleRef(p) \/ MentionInterpret(p)
  \/ MentionDeleteOldPending(p) \/ MentionDeleteOldRef(p) \/ MentionPostConfirm(p)
  \/ MentionSavePending(p) \/ MentionSaveRef(p)
  \/ RouteThreadMessage(p)
  \/ AssigneeGetThreadState(p) \/ AssigneeEvaluate(p) \/ AssigneeAppendReply(p)
  \/ AssigneeSaveThreadState(p)
  \/ PmReplyGetPmThread(p) \/ PmReplyInterpret(p) \/ PmReplySavePending(p)
  \/ PmReplySavePmThread(p)
  \/ EodGetThreadState(p) \/ EodSaveThreadState(p) \/ EodAppendReply(p)

\* Events handled one after the other (each handler runs to its end before the
\* next event is taken, as when the handlers are awaited inline), together
\* with the scheduled flows.
Next ==
  \/ Dispatch(1)
  \/ Step(1)
  \/ \E t \in Threads : runMorningFlow(t)
  \/ runEveningFlow
  \/ \E m \in BotMsgs : PendingActionExpires(m)

Spec == Init /\ [][Next]_vars

\* The proposal lifecycle on its own: the same events one after the other in
\* threads that are not check-in threads (no morning flow has opened them, so
\* no ThreadState exists and the check-in steps of the handlers are skipped).
DispatchApproval(p) ==
  \/ \E m \in BotMsgs : ReactionAddedEvent(p, m)
  \/ \E m \in BotMsgs : TaskActionButtonEvent(p, m, TRUE)
  \/ \E m \in BotMsgs : TaskActionButtonEvent(p, m, FALSE)
  \/ \E m \in BotMsgs : TaskModifyButtonEvent(p, m)
  \/ \E m \in BotMsgs : PmReportButtonEvent(p, m)
  \/ \E m \in BotMsgs : PmThreadMessageEvent(p, m)
  \/ \E t \in Threads : AppMentionEvent(p, t)
  \/ \E t \in Threads : ThreadMessageEvent(p, t)

StepApproval(p) ==
  \/ ReactionGetPending(p) \/ ReactionGetPmThread(p) \/ ReactionPmExecute(p)
  \/ ReactionPmSave(p) \/ ReactionExecute(p) \/ ReactionDeletePending(p)
  \/ ReactionDeleteRef(p)
  \/ ButtonGetPending(p) \/ ButtonExecute(p) \/ ButtonDeletePending(p)
  \/ ButtonDeleteRef(p) \/ handleTaskModifyButton(p)
  \/ PmButtonGetPmThread(p) \/ PmButtonExecute(p) \/ PmButtonSave(p)
  \/ MentionFetch(p) \/ MentionGetOldPending(p) \/ MentionCleanStaleRef(p)
  \/ MentionInterpret(p) \/ MentionDeleteOldPending(p) \/ MentionDeleteOldRef(p)
  \/ MentionPostConfirm(p) \/ MentionSavePending(p) \/ MentionSaveRef(p)
  \/ RouteThreadMessage(p) \/ AssigneeGetThreadState(p)
  \/ PmReplyGetPmThread(p) \/ PmReplyInterpret(p) \/ PmReplySavePending(p)
  \/ PmReplySavePmThread(p)

NextApproval ==
  \/ DispatchApproval(1)
  \/ StepApproval(1)
  \/ runEveningFlow
  \/ \E m \in BotMsgs : PendingActionExpires(m)

SpecApproval == Init /\ [][NextApproval]_vars

\* Concurrent invocations on the shared store: approvals and cancels of
\* confirmation messages run on every invocation slot and interleave step by
\* step with each other and with the mention handler that saves the proposals.
Free(p) == At(p, "idle") /\ \A q \in Procs : At(q, "idle") => q >= p

DispatchRace(p) ==
  /\ Free(p)
  /\ \/ \E m \in BotMsgs : ReactionAddedEvent(p, m)
     \/ \E m \in BotMsgs : TaskActionButtonEvent(p, m, TRUE)
     \/ \E m \in BotMsgs : TaskActionButtonEvent(p, m, FALSE)
     \/ \E t \in Threads : p = 1 /\ AppMentionEvent(p, t)

StepRace(p) ==
  \/ ReactionGetPending(p) \/ ReactionGetPmThread(p)
  \/ ReactionExecute(p) \/ ReactionDeletePending(p) \/ ReactionDeleteRef(p)
  \/ ButtonGetPending(p) \/ ButtonExecute(p) \/ ButtonDeletePending(p)
  \/ ButtonDeleteRef(p)
  \/ MentionFetch(p) \/ MentionGetOldPending(p) \/ MentionCleanStaleRef(p)
  \/ MentionInterpret(p) \/ MentionDeleteOldPending(p) \/ MentionDeleteOldRef(p)
  \/ MentionPostConfirm(p) \/ MentionSavePending(p) \/ MentionSaveRef(p)

NextRace ==
  \/ \E p \in Procs : DispatchRace(p)
  \/ \E p \in Procs : StepRace(p)

SpecRace == Init /\ [][NextRace]_vars

\* Concurrent signals on the PM report: reactions, approve clicks and thread
\* replies on report messages run on every invocation slot and interleave
\* step by step on the pm-thread record.
DispatchPmRace(p) ==
  /\ Free(p)
  /\ \/ \E m \in BotMsgs : msgKind[m] = "report" /\ ReactionAddedEvent(p, m)
     \/ \E m \in BotMsgs : PmReportButtonEvent(p, m)
     \/ \E m \in BotMsgs : PmThreadMessageEvent(p, m)

StepPmRace(p) ==
  \/ ReactionGetPending(p) \/ ReactionGetPmThread(p) \/ ReactionPmExecute(p)
  \/ ReactionPmSave(p)
  \/ PmButtonGetPmThread(p) \/ PmButtonExecute(p) \/ PmButtonSave(p)
  \/ PmReplyGetPmThread(p) \/ PmReplyInterpret(p) \/ PmReplySavePending(p)
  \/ PmReplySavePmThread(p)

NextPmRace ==
  \/ \E p \in Procs : DispatchPmRace(p)
  \/ \E p \in Procs : StepPmRace(p)
  \/ runEveningFlow

SpecPmRace == Init /\ [][NextPmRace]_vars

\* The two endpoints in front of the handlers: every request goes through the
\* tests of its endpoint, with and without an ExecutionContext, and the
\* handler it dispatches runs to its end before the next request is taken.
InitHttp == hasCtx \in BOOLEAN /\ NoLibrary /\ InitStore

StepHttp(p) ==
  \/ ReactionGetPending(p) \/ ReactionGetPmThread(p)
  \/ ReactionExecute(p) \/ ReactionDeletePending(p) \/ ReactionDeleteRef(p)
  \/ ButtonGetPending(p) \/ ButtonExecute(p) \/ ButtonDeletePending(p)
  \/ ButtonDeleteRef(p)
  \/ MentionFetch(p) \/ MentionGetOldPending(p) \/ MentionCleanStaleRef(p)
  \/ MentionInterpret(p) \/ MentionDeleteOldPending(p) \/ MentionDeleteOldRef(p)
  \/ MentionPostConfirm(p) \/ MentionSavePending(p) \/ MentionSaveRef(p)

NextHttp ==
  \/ \E req \in EventSamples : handleSlackEvents(1, req)
  \/ \E req \in InteractionSamples : handleSlackInteractions(1, req)
  \/ StepHttp(1)
  \/ \E m \in BotMsgs : PendingActionExpires(m)

SpecHttp == InitHttp /\ [][NextHttp]_vars

\* The check-in threads on their own: the morning flow opens them, assignees
\* answer with plain messages or the end-of-day buttons, and the reminder
\* flow looks for the threads still without an answer.
DispatchCheckin(p) ==
  \/ \E t \in Threads : ThreadMessageEvent(p, t)
  \/ \E t \in Threads : EodButtonEvent(p, t)

StepCheckin(p) ==
  \/ RouteThreadMessage(p)
  \/ AssigneeGetThreadState(p) \/ AssigneeEvaluate(p) \/ AssigneeAppendReply(p)
  \/ AssigneeSaveThreadState(p)
  \/ PmReplyGetPmThread(p)
  \/ EodGetThreadState(p) \/ EodSaveThreadState(p) \/ EodAppendReply(p)

NextCheckin ==
  \/ DispatchCheckin(1)
  \/ StepCheckin(1)
  \/ \E t \in Threads : runMorningFlow(t)
  \/ \E stop \in Threads \cup {MaxThreads + 1} : runReminderFlow(stop)

SpecCheckin == Init /\ [][NextCheckin]_vars

\* The check-in conversation on its own: users write in threads (with or
\* without mentions), press the end-of-day buttons and answer the PM report,
\* while the scheduled flows open threads and post reports.
\* Proposals are saved but no approval or cancel arrives before they expire.
DispatchMessages(p) ==
  \/ \E t \in Threads : \E ids \in SUBSET Accounts : \E auth \in BOOLEAN :
       UserPostsInThread(p, t, ids, auth)
  \/ \E m \in BotMsgs : PmThreadMessageEvent(p, m)
  \/ \E t \in Threads : EodButtonEvent(p, t)

StepMessages(p) ==
  \/ MentionFetch(p) \/ MentionAppendReply(p) \/ MentionSaveThreadState(p)
  \/ MentionGetOldPending(p) \/ MentionCleanStaleRef(p) \/ MentionInterpret(p)
  \/ MentionDeleteOldPending(p) \/ MentionDeleteOldRef(p) \/ MentionPostConfirm(p)
  \/ MentionSavePending(p) \/ MentionSaveRef(p)
  \/ RouteThreadMessage(p)
  \/ AssigneeGetThreadState(p) \/ AssigneeEvaluate(p) \/ AssigneeAppendReply(p)
  \/ AssigneeSaveThreadState(p)
  \/ PmReplyGetPmThread(p) \/ PmReplyInterpret(p) \/ PmReplySavePending(p)
  \/ PmReplySavePmThread(p)
  \/ EodGetThreadState(p) \/ EodSaveThreadState(p) \/ EodAppendReply(p)

NextMessages ==
  \/ DispatchMessages(1)
  \/ StepMessages(1)
  \/ \E t \in Threads : runMorningFlow(t)
  \/ runEveningFlow
  \/ \E m \in BotMsgs : PendingActionExpires(m)

SpecMessages == Init /\ [][NextMessages]_vars

\* ------------------------------------------------------------- properties
ApprovalKinds == {"reaction", "approve"}

\* the live PendingActions that name thread t as their originating thread
LivePending(t) ==
  {m \in BotMsgs : pendingAction[m] # Null /\ pendingAction[m].threadTs = t}

\* how many calls of run b were made for action i of its list
CallsOf(b, i) == Cardinality({k \in 1 .. Len(b.calls) : b.calls[k].i = i})

\* the action kinds for which a run makes a call on the task data source
Executable(a) ==
  a \in {"create_task", "update_due", "update_sp", "update_status", "update_sprint"}

\* invocation p takes this step
Steps(p) == proc'[p] # proc[p]

\* what the handler of invocation p runs for its PendingAction
RunOf(p, fails) ==
  IF proc[p].h = "reaction"
    THEN ReactionRun(proc[p].pending, dryRun, fails)
    ELSE ButtonRun(proc[p].pending, dryRun, fails)

\* C1: sequential double approval.  Once an approval of confirmation message m
\* has run to its end, the data source holds exactly one run for m, made by an
\* approval handler, with one call per executable action of the PendingAction
\* (none under dry run) and no call twice; and every step of an approval of m
\* that arrives afterwards, by reaction or by button, changes neither the
\* store nor the task data source.
C1_DoubleApproval ==
  /\ [](\A m \in BotMsgs :
          consumed[m] = "approved" =>
            /\ Len(notion[m]) = 1
            /\ notion[m][1].via \in ApprovalKinds
            /\ \A i \in 1 .. Len(notion[m][1].actions) :
                 CallsOf(notion[m][1], i) =
                   IF ~dryRun /\ Executable(notion[m][1].actions[i]) THEN 1 ELSE 0)
  /\ [][\A p \in Procs :
          (Steps(p) /\ proc[p].late = "approved" /\ proc[p].h \in ApprovalKinds) =>
            (store' = store /\ notion' = notion)]_vars

\* a button approval of m has arrived after a reaction approval of m ran to its end
C1_Witness ==
  \E p \in Procs :
    /\ At(p, "b_get") /\ proc[p].h = "approve" /\ proc[p].late = "approved"
    /\ notion[proc[p].m] # <<>>
    /\ notion[proc[p].m][1].via = "reaction"
    /\ notion[proc[p].m][1].calls # <<>>

\* C2: under every interleaving of concurrent approvals of one confirmation
\* message, each action recorded in its PendingAction is applied to the task
\* data source at most once (over all runs made for the message).
C2_AtMostOnce ==
  \A m \in BotMsgs :
    \A k, l \in 1 .. Len(notion[m]) :
      k # l =>
        \A i \in 1 .. Len(notion[m][k].actions) :
          ~(CallsOf(notion[m][k], i) > 0 /\ CallsOf(notion[m][l], i) > 0)

\* C3: every run on the task data source is made by the handler of an approval
\* event (reaction, task approve button, report approve button) at its execute
\* step; no step of any other handler or flow changes the task data source.
C3_OnlyOnApproval ==
  /\ [](\A m \in BotMsgs : \A k \in 1 .. Len(notion[m]) :
          notion[m][k].via \in {"reaction", "approve", "pm_button"})
  /\ [][notion' # notion =>
          \E p \in Procs :
            /\ Steps(p)
            /\ proc[p].h \in {"reaction", "approve", "pm_button"}
            /\ proc[p].pc \in {"r_exec", "r_pmexec", "b_exec", "pb_exec"}]_vars

\* a proposal made by the mention handler in a check-in thread has been
\* approved and its calls made, after replies and mentions were handled
C3_Witness ==
  \E m \in BotMsgs : \E t \in Threads :
    /\ notion[m] # <<>>
    /\ notion[m][1].calls # <<>>
    /\ threadState[t] = "replied"
    /\ consumed[m] = "approved"

\* C4: from the moment a thread's proposal is saved until an approval takes
\* it, exactly one live PendingAction names the thread and the thread's
\* BackRef points to it.
C4_ExactlyOnePair ==
  \A t \in Threads :
    open[t] => (Cardinality(LivePending(t)) = 1 /\ createRef[t] \in LivePending(t))

\* C5: when handleMention saves a new proposal for a thread whose BackRef led
\* to a live PendingAction, that PendingAction and the BackRef are gone by
\* then; and at most one live PendingAction names a thread.
C5_DeleteBeforeCreate ==
  /\ \A p \in Procs :
       (At(p, "m_savepa") /\ proc[p].old # Null) =>
         (pendingAction[proc[p].ref] = Null /\ createRef[proc[p].t] = NoMsg)
  /\ \A t \in Threads : Cardinality(LivePending(t)) <= 1

\* C6: a BackRef whose PendingAction is missing is deleted by handleMention's
\* next step, which fails nothing, executes nothing and goes on to the
\* interpreter with no old proposal; from there the handler is where it would
\* be without pending state (no BackRef when the new proposal is posted).
C6_StaleRefHealed ==
  /\ [][\A p \in Procs :
          (Steps(p) /\ At(p, "m_heal")) =>
            /\ createRef'[proc[p].t] = NoMsg
            /\ proc'[p].pc = "m_llm"
            /\ proc'[p].old = Null
            /\ pendingAction' = pendingAction
            /\ notion' = notion]_vars
  /\ [](\A p \in Procs :
          (proc[p].pc \in {"m_llm", "m_post"} /\ proc[p].old = Null) =>
            /\ createRef[proc[p].t] = NoMsg
            /\ pendingCreateTasks(p) = <<>>
            /\ pendingUpdateActions(p) = <<>>)

\* handleMention found a BackRef to a missing PendingAction and has healed it
C6_Witness ==
  \E p \in Procs :
    /\ At(p, "m_llm") /\ proc[p].ref # NoMsg /\ proc[p].old = Null
    /\ createRef[proc[p].t] = NoMsg

C8_FailureIsolation ==
  /\ [](\A p \in Procs :
          proc[p].pc \in {"r_exec", "b_exec"} =>
            \A fails \in SUBSET (1 .. Len(proc[p].pending.actions)) :
              LET acts == proc[p].pending.actions
                  run == RunOf(p, fails)
              IN  /\ run.calls = RunOf(p, {}).calls
                  /\ \A i \in 1 .. Len(acts) :
                       (~dryRun /\ Executable(acts[i])) =>
                         \E k \in 1 .. Len(run.calls) : run.calls[k].i = i
                  /\ Len(run.results) = Len(acts)
                  /\ \A i \in 1 .. Len(acts) :
                       /\ run.results[i].i = i
                       /\ run.results[i].r = "failed" <=>
                            (i \in fails /\ ~dryRun /\ Executable(acts[i])))
  /\ [][\A p \in Procs :
          /\ (Steps(p) /\ proc[p].pc \in {"r_del", "b_del"} /\ proc[p].h \in ApprovalKinds) =>
               /\ pendingAction'[proc[p].m] = Null
               /\ proc'[p].pc = IF proc[p].pending.threadTs # NoThread
                                  THEN (IF proc[p].h = "reaction" THEN "r_delref" ELSE "b_delref")
                                  ELSE "idle"
          /\ (Steps(p) /\ proc[p].pc \in {"r_delref", "b_delref"}) =>
               createRef'[proc[p].pending.threadTs] = NoMsg]_vars

\* an approved list of several actions in which a call failed and a later
\* call succeeded, about to be deleted
C8_Witness ==
  \E p \in Procs :
    /\ proc[p].pc \in {"r_del", "b_del"}
    /\ proc[p].h \in ApprovalKinds
    /\ \E i, j \in 1 .. Len(proc[p].results) :
         i < j /\ proc[p].results[i].r = "failed" /\ proc[p].results[j].r = "ok"

\* C9: for a PendingAction about to be executed, the reaction channel and the
\* button channel run the same calls in the same order with the same results;
\* every run recorded by either channel is the run both channels compute; and
\* the step that ends an approval on either channel leaves the PendingAction
\* deleted, its thread's BackRef deleted and the other records as they were.
C9_ChannelsConverge ==
  /\ [](\A p \in Procs :
          proc[p].pc \in {"r_exec", "b_exec"} =>
            \A fails \in SUBSET (1 .. Len(proc[p].pending.actions)) :
              ReactionRun(proc[p].pending, dryRun, fails)
                = ButtonRun(proc[p].pending, dryRun, fails))
  /\ [](\A m \in BotMsgs : \A k \in 1 .. Len(notion[m]) :
          notion[m][k].via \in ApprovalKinds =>
            LET P == [actions |-> notion[m][k].actions, threadTs |-> NoThread]
            IN  /\ notion[m][k].calls = ReactionRun(P, dryRun, {}).calls
                /\ notion[m][k].calls = ButtonRun(P, dryRun, {}).calls)
  /\ [][\A p \in Procs :
          (Steps(p) /\ proc[p].h \in ApprovalKinds /\ proc[p].pending # Null) =>
            /\ threadState' = threadState /\ replyLog' = replyLog /\ pmThread' = pmThread
            /\ \A m \in BotMsgs : m # proc[p].m => pendingAction'[m] = pendingAction[m]
            /\ \A t \in Threads :
                 t # proc[p].pending.threadTs => createRef'[t] = createRef[t]
            /\ consumed'[proc[p].m] # consumed[proc[p].m] =>
                 /\ pendingAction'[proc[p].m] = Null
                 /\ proc[p].pending.threadTs # NoThread =>
                      createRef'[proc[p].pending.threadTs] = NoMsg]_vars

\* the same action list approved once by reaction and once by button, both done
C9_Witness ==
  \E m, n \in BotMsgs :
    /\ consumed[m] = "approved" /\ consumed[n] = "approved"
    /\ notion[m] # <<>> /\ notion[n] # <<>>
    /\ notion[m][1].via = "reaction" /\ notion[n][1].via = "approve"
    /\ notion[m][1].actions = notion[n][1].actions
    /\ notion[m][1].calls # <<>>
    /\ notion[m][1].calls = notion[n][1].calls

\* C10: every entry of a check-in thread's reply log was accepted by the gate
\* (judged sufficient, or let through when the classifier failed), and a thread
\* in state replied has such an entry.
C10_GateOnly ==
  \A t \in Threads :
    /\ \A k \in 1 .. Len(replyLog[t]) : replyLog[t][k].verdict \in {"sufficient", "error"}
    /\ threadState[t] = "replied" =>
         \E k \in 1 .. Len(replyLog[t]) : replyLog[t][k].verdict \in {"sufficient", "error"}

\* C11: a reply the gate judges insufficient on a pending check-in thread is
\* sent past the append and the save, and no step of its handling changes the
\* ThreadState or the ReplyLog; and a run of the reminder flow posts a
\* reminder in every active thread whose ReplyLog is empty that it reaches.
C11_InvalidReplyKeepsReminder ==
  [][/\ \A p \in Procs :
          /\ (Steps(p) /\ At(p, "a_gate") /\ proc[p].ts = "pending"
                /\ proc'[p].verdict = "insufficient") => proc'[p].pc = "p_get"
          /\ (Steps(p) /\ proc[p].h = "message" /\ proc[p].ts = "pending"
                /\ proc[p].verdict = "insufficient") =>
               (threadState' = threadState /\ replyLog' = replyLog)
     /\ \A stop \in Threads \cup {MaxThreads + 1} :
          runReminderFlow(stop) =>
            \A t \in Threads :
              (NeedsReminder(t) /\ ~dryRun /\ t < stop) => reminded'[t] = "sent"]_vars

\* a reply was judged insufficient on a pending thread whose log is still
\* empty, and the reminder flow has posted its reminder there
C11_Witness ==
  \E p \in Procs :
    /\ At(p, "p_get") /\ proc[p].h = "message"
    /\ proc[p].ts = "pending" /\ proc[p].verdict = "insufficient"
    /\ threadState[proc[p].t] = "pending"
    /\ replyLog[proc[p].t] = <<>>
    /\ reminded[proc[p].t] = "sent"

\* C12: a ThreadState that is replied stays replied at every step; and a step
\* taken for a later plain message of the thread that adds to the ReplyLog
\* adds a text the gate has judged sufficient.
C12_RepliedTerminal ==
  [][\A t \in Threads :
       threadState[t] = "replied" =>
         /\ threadState'[t] = "replied"
         /\ \A p \in Procs :
              (Steps(p) /\ proc[p].h = "message" /\ proc[p].t = t
                 /\ replyLog'[t] # replyLog[t]) => proc[p].verdict = "sufficient"]_vars

\* C13: when the classifier throws on a reply to a pending thread, the reply
\* goes on to be appended to the ReplyLog and the state is then saved as
\* replied; when it throws on a reply to a replied thread, the handler goes
\* past the append and no step of it changes the ReplyLog or the ThreadState.
C13_GateFailureAsymmetry ==
  [][\A p \in Procs :
       /\ (Steps(p) /\ At(p, "a_gate") /\ proc'[p].verdict = "error") =>
            proc'[p].pc = IF proc[p].ts = "pending" THEN "a_append" ELSE "p_get"
       /\ (Steps(p) /\ At(p, "a_append") /\ proc[p].verdict = "error") =>
            /\ proc[p].ts = "pending"
            /\ replyLog'[proc[p].t] =
                 Append(replyLog[proc[p].t], [via |-> "assignee", verdict |-> "error"])
            /\ proc'[p].pc = "a_save"
       /\ (Steps(p) /\ At(p, "a_save") /\ proc[p].verdict = "error") =>
            threadState'[proc[p].t] = "replied"
       /\ (Steps(p) /\ proc[p].h = "message" /\ proc[p].verdict = "error"
             /\ proc[p].ts = "replied") =>
            (replyLog' = replyLog /\ threadState' = threadState)]_vars

\* the classifier threw on the first reply, which was saved and settled the
\* thread, and has thrown again on a later reply, which is left out
C13_Witness ==
  \E p \in Procs :
    /\ At(p, "p_get") /\ proc[p].h = "message"
    /\ proc[p].ts = "replied" /\ proc[p].verdict = "error"
    /\ threadState[proc[p].t] = "replied"
    /\ replyLog[proc[p].t] = << [via |-> "assignee", verdict |-> "error"] >>

\* C14: every step of a handler started by a signal on a report message whose
\* record had been saved as processed (reaction, approve button, reply in the
\* report thread) changes no record, posts no message and makes no run on the
\* task data source, and never reaches an execute or save step; a report
\* marked processed has its record in the store, and no step removes the record.
C14_ProcessedIsNoOp ==
  /\ [](\A m \in BotMsgs : consumed[m] = "processed" => pmThread # NoPm)
  /\ [][/\ \A p \in Procs :
             (Steps(p) /\ proc[p].late = "processed") =>
               /\ store' = store /\ notion' = notion /\ msgKind' = msgKind
               /\ proc'[p].pc \in {"r_pm", "idle"}
        /\ pmThread # NoPm => pmThread' # NoPm]_vars

\* the report was approved by reaction, its record is processed, and a click
\* on its approve button has arrived afterwards
C14_Witness ==
  \E p \in Procs :
    /\ At(p, "pb_get") /\ proc[p].late = "processed"
    /\ pmThread = [ts |-> proc[p].m, state |-> "processed"]
    /\ notion[proc[p].m] # <<>>
    /\ notion[proc[p].m][1].via = "reaction"
    /\ notion[proc[p].m][1].calls # <<>>

\* the runs made on the task data source for report messages
ReportRuns ==
  {x \in BotMsgs \X (1 .. 2 * MaxMsgs) : msgKind[x[1]] = "report" /\ x[2] <= Len(notion[x[1]])}

\* C15: whatever the interleaving of the signals on report messages, the
\* proposals taken up (runs made for a report message, plus PendingActions
\* saved from a reply in a report thread) are at most as many as the reports
\* posted: each report's proposal is taken up at most once.
C15_OneTransition ==
  Cardinality(ReportRuns) + Cardinality({c \in BotMsgs : pendingAction[c] # Null})
    <= Cardinality({m \in BotMsgs : msgKind[m] = "report"})

\* the steps of handleMention, of handleAssigneeReply and of handlePmReply
MentionPcs ==
  {"m_read", "m_append", "m_savets", "m_getold", "m_heal", "m_llm", "m_delpa",
   "m_delref", "m_post", "m_savepa", "m_saveref"}
AssigneePcs == {"a_get", "a_gate", "a_append", "a_save"}
PmReplyPcs == {"p_get", "p_llm", "p_savepa", "p_savepm"}

\* C16: for a plain thread message, after the disambiguation lookup (which
\* finds nothing) the BackRef of the thread decides: present, the mention
\* handler takes the message and nothing runs after it; absent, the check-in
\* handler runs and then the report-reply handler.  A step that changes the
\* store or posts a message is a step of the mention handler, or of the
\* check-in handler on a thread that has a ThreadState and is not a report
\* thread, or of the report-reply handler on a report thread that has no
\* ThreadState; a message that matches none of the three changes nothing.
C16_RoutingPriority ==
  [][\A p \in Procs :
       (Steps(p) /\ proc[p].h = "message") =>
         /\ At(p, "route") =>
              proc'[p].pc = IF createRef[proc[p].t] # NoMsg THEN "m_read" ELSE "a_get"
         /\ proc[p].pc \in MentionPcs => proc'[p].pc \in MentionPcs \cup {"idle"}
         /\ proc[p].pc \in AssigneePcs => proc'[p].pc \in AssigneePcs \cup PmReplyPcs
         /\ proc[p].pc \in PmReplyPcs => proc'[p].pc \in PmReplyPcs \cup {"idle"}
         /\ (store' # store \/ msgKind' # msgKind \/ notion' # notion) =>
              \/ proc[p].pc \in MentionPcs
              \/ proc[p].pc \in AssigneePcs /\ proc[p].ts # "none" /\ proc[p].pm = NoPm
              \/ proc[p].pc \in PmReplyPcs /\ proc[p].ts = "none" /\ proc[p].pm # NoPm]_vars

\* a plain message in a check-in thread that has a BackRef was taken by the
\* mention handler, which has appended it to the thread's ReplyLog
C16_Witness ==
  \E p \in Procs :
    /\ At(p, "m_savets") /\ proc[p].h = "message"
    /\ proc[p].ref # NoMsg
    /\ threadState[proc[p].t] # "none"
    /\ replyLog[proc[p].t] # <<>>

\* the event callbacks that Slack marks as redelivered
Redeliveries ==
  {req \in EventRequests : req.json /\ req.type = "event_callback" /\ req.retry = "1"}

\* every redelivery ends at the redelivery guard and is answered "ok"
RedeliveriesStopAtGuard ==
  \A req \in Redeliveries :
    EventsGate(req) = "retry" /\ GateResponse(EventsGate(req)) = "ok"

\* C17: for every event callback with a retry counter above zero, whatever its
\* event, its timestamp and its signature, the events endpoint stops at the
\* redelivery guard and answers "ok"; and the step that answers a redelivery
\* starts no handler and leaves the store, the messages and the task data
\* source as they were.
C17_RedeliveryDropped ==
  /\ [](RedeliveriesStopAtGuard)
  /\ [][\A p \in Procs :
          (Steps(p) /\ proc'[p].gate = "retry") =>
            /\ store' = store /\ notion' = notion /\ msgKind' = msgKind
            /\ proc'[p].pc = "idle"
            /\ proc'[p].ack = "ok"]_vars

\* a redelivered request has been answered while a proposal was waiting for
\* its approval: the proposal is still there and nothing was run for it
C17_Witness ==
  \E p \in Procs : \E m \in BotMsgs :
    /\ At(p, "idle") /\ proc[p].gate = "retry" /\ proc[p].ack = "ok"
    /\ pendingAction[m] # Null
    /\ notion[m] = <<>>

\* C18: every thread message a user writes is taken by the direct-mention
\* path or by the plain-thread-message chain: none is left without a handler.
C18_ExactlyOnePath ==
  \A p \in Procs : proc[p].gate # "unrouted"

DispatchedAreAuthentic ==
  /\ \A req \in EventRequests :
       EventsGate(req) = "dispatch" => (~TooOld(req) /\ req.secret /\ req.sig)
  /\ \A req \in InteractionRequests :
       InteractionsGate(req) = "dispatch" => (~TooOld(req) /\ req.secret /\ req.sig)

\* C21: both endpoints dispatch a handler only for requests that have passed
\* the replay-window test and the signature test; and the step that rejects a
\* request at either test starts no handler, changes no record, posts no
\* message and makes no run on the task data source.
C21_AuthBeforeState ==
  /\ [](DispatchedAreAuthentic)
  /\ [](\A p \in Procs : proc[p].pc # "idle" => proc[p].gate = "none")
  /\ [][\A p \in Procs :
          (Steps(p) /\ proc'[p].gate \in {"too_old", "bad_signature"}) =>
            /\ store' = store /\ notion' = notion /\ msgKind' = msgKind
            /\ threadUsed' = threadUsed
            /\ proc'[p].pc = "idle"
            /\ proc'[p].ack = IF proc'[p].gate = "too_old" THEN "400" ELSE "401"]_vars

\* a request with a signature that does not verify was rejected with 401 while
\* a proposal was waiting: the proposal is untouched
C21_Witness ==
  \E p \in Procs : \E m \in BotMsgs :
    /\ At(p, "idle") /\ proc[p].gate = "bad_signature" /\ proc[p].ack = "401"
    /\ proc[p].sig = "invalid"
    /\ pendingAction[m] # Null
    /\ notion[m] = <<>>

\* the requests that arrive at the replay test of the events endpoint with a
\* timestamp header that parses (the body is JSON, it is not the URL
\* verification handshake and not a redelivery)
EventsTimed ==
  {req \in EventRequests :
     req.json /\ req.type # "url_verification" /\ req.retry # "1" /\ req.stamped}

\* every request of the interactions endpoint arrives at its replay test
InteractionsTimed == {req \in InteractionRequests : req.stamped}

\* more than the window apart, in either direction: rejected with 400 whatever
\* the signature; at most the window apart: the signature decides
WindowDecides ==
  /\ \A req \in EventsTimed :
       IF Abs(req.skew) > ReplayWindow
         THEN EventsGate(req) = "too_old" /\ GateResponse(EventsGate(req)) = "400"
         ELSE /\ EventsGate(req) # "too_old"
              /\ req.secret => (EventsGate(req) = "bad_signature" <=> ~req.sig)
  /\ \A req \in InteractionsTimed :
       IF Abs(req.skew) > ReplayWindow
         THEN InteractionsGate(req) = "too_old"
                /\ GateResponse(InteractionsGate(req)) = "400"
         ELSE /\ InteractionsGate(req) # "too_old"
              /\ req.secret => (InteractionsGate(req) = "bad_signature" <=> ~req.sig)

\* C22: on both endpoints a request whose timestamp is more than 300 seconds
\* from the current time, before or after it, is rejected with 400 whether or
\* not its signature verifies, and a request at most 300 seconds away goes on
\* to the signature test, which then decides; a request answered as too old
\* has started no handler.
C22_ReplayWindow ==
  /\ WindowDecides
  /\ \A p \in Procs :
       proc[p].gate = "too_old" => (proc[p].pc = "idle" /\ proc[p].ack = "400")

\* a request with a signature that verifies and a timestamp outside the
\* window was rejected while a proposal was waiting
C22_Witness ==
  \E p \in Procs : \E m \in BotMsgs :
    /\ proc[p].gate = "too_old" /\ proc[p].sig = "valid" /\ proc[p].ack = "400"
    /\ pendingAction[m] # Null

(***************************************************************************)
(* Notification dedup (isDuplicateAndRemember): one hash per dedup key in  *)
(* NOTIFY_CACHE, read and then written by separate store operations.       *)
(***************************************************************************)
MaxCalls == 3

DedupKeys == {"sprint:1", "sprint:2"}
Hashes == {"h1", "h2"}
NoHash == "null"

DedupIdle == [pc |-> "idle", key |-> "", hash |-> NoHash]

InitDedup ==
  /\ hasCtx = TRUE
  /\ InitStore
  /\ cache = [k \in DedupKeys |-> NoHash]
  /\ call = [run |-> [p \in Procs |-> DedupIdle], log |-> <<>>]

\* the call's record: what it was given, what it returned, whether it put
Returned(k, h, dup) == [op |-> "call", key |-> k, hash |-> h, dup |-> dup]

\* the comparison is skipped: every call stores its hash
isDuplicateAndRemember_NoCompare(p, k, h) ==
  /\ call.run[p].pc = "idle"
  /\ Len(call.log) < MaxCalls
  /\ call' = [call EXCEPT !.run[p] = [pc |-> "put", key |-> k, hash |-> h]]
  /\ UNCHANGED <<cache, workflow>>

\* const existing = await get(key); if (existing === hash) return true;
isDuplicateAndRemember(p, k, h) ==
  /\ call.run[p].pc = "idle"
  /\ Len(call.log) < MaxCalls
  /\ IF cache[k] = h
       THEN call' = [call EXCEPT !.log = Append(@, Returned(k, h, TRUE))]
       ELSE call' = [call EXCEPT !.run[p] = [pc |-> "put", key |-> k, hash |-> h]]
  /\ UNCHANGED <<cache, workflow>>

\* await put(key, hash, {expirationTtl}); return false;
DedupPut(p) ==
  /\ call.run[p].pc = "put"
  /\ cache' = [cache EXCEPT ![call.run[p].key] = call.run[p].hash]
  /\ call' = [call EXCEPT !.run[p] = DedupIdle,
                          !.log = Append(@, Returned(call.run[p].key, call.run[p].hash, FALSE))]
  /\ UNCHANGED workflow

\* expirationTtl seconds after the put the store drops the key
DedupExpires(k) ==
  /\ cache[k] # NoHash
  /\ Len(call.log) < MaxCalls
  /\ cache' = [cache EXCEPT ![k] = NoHash]
  /\ call' = [call EXCEPT !.log = Append(@, [op |-> "expire", key |-> k, hash |-> NoHash, dup |-> FALSE])]
  /\ UNCHANGED workflow

\* one dedup call at a time
NoDedupRunning == \A q \in Procs : call.run[q].pc = "idle"

NextDedup ==
  \/ \E p \in Procs, k \in DedupKeys, h \in Hashes : NoDedupRunning /\ isDuplicateAndRemember(p, k, h)
  \/ \E p \in Procs : DedupPut(p)
  \/ \E k \in DedupKeys : DedupExpires(k)

SpecDedup == InitDedup /\ [][NextDedup]_vars

\* the entries of the log about key k, in order
RECURSIVE OfKey(_, _)
OfKey(log, k) ==
  IF log = <<>> THEN <<>>
  ELSE IF Head(log).key = k THEN <<Head(log)>> \o OfKey(Tail(log), k)
  ELSE OfKey(Tail(log), k)

\* C23: sequential calls for one key within the TTL: a call reports
\* duplicate exactly when the call before it (with no expiry in between) had
\* the same hash, so h, h, h' gives false, true, false; a call that reports
\* duplicate leaves the store as it was; once the calls have returned the
\* stored hash is the hash of the last one.
C23_DedupSequence ==
  /\ [](\A k \in DedupKeys :
          LET l == OfKey(call.log, k) IN
            /\ \A i \in 1..Len(l) :
                 l[i].op = "call" =>
                   l[i].dup = (i > 1 /\ l[i-1].op = "call" /\ l[i-1].hash = l[i].hash)
            /\ (NoDedupRunning /\ l # <<>>) => cache[k] = l[Len(l)].hash)
  /\ [][(Len(call'.log) > Len(call.log) /\ call'.log[Len(call'.log)].dup) => cache' = cache]_vars

C23_Witness ==
  \E k \in DedupKeys, h, g \in Hashes :
    /\ h # g
    /\ call.log = <<Returned(k, h, FALSE), Returned(k, h, TRUE), Returned(k, g, FALSE)>>
    /\ cache[k] = g

(***************************************************************************)
(* Retry wrapper (withRetry): the loop around one fallible operation.      *)
(***************************************************************************)
DefaultMaxRetries == 3
DefaultInitialDelayMs == 500

\* the options a call is made with
MaxRetriesValues == 1..DefaultMaxRetries
InitialDelays == {DefaultInitialDelayMs, 2 * DefaultInitialDelayMs}

\* an error message as the words /\b...\b/ sees it; <<>> is a missing message
Messages ==
  { <<"Slack", "API", "HTTP", "error", "404", "chat", "postMessage">>,
    <<"Slack", "API", "HTTP", "error", "500", "chat", "postMessage">>,
    <<"Slack", "API", "HTTP", "error", "429", "chat", "postMessage">>,
    <<"status", "4040">>,
    <<"Slack", "API", "error", "chat", "postMessage", "channel_not_found">>,
    <<"Sheets", "API", "error", "403">>,
    <<>> }
Values == {"v1", "v2"}

\* /\b(400|401|403|404)\b/.test(msg)
is4xx(msg) == \E i \in 1..Len(msg) : msg[i] \in {"400", "401", "403", "404"}

RetryIdle ==
  [pc |-> "idle", maxRetries |-> 0, initialDelayMs |-> 0, attempt |-> 0, delay |-> 0,
   fn |-> <<>>, waits |-> <<>>, out |-> [kind |-> "none"]]

InitRetry ==
  /\ hasCtx = TRUE
  /\ InitStore
  /\ cache = <<>>
  /\ call = RetryIdle

\* let attempt = 0; let delay = initialDelayMs; while (true) { attempt++; try { fn()
withRetry(mr, d0) ==
  /\ call.pc = "idle"
  /\ call' = [call EXCEPT !.pc = "fn", !.maxRetries = mr, !.initialDelayMs = d0,
                          !.attempt = 1, !.delay = d0]
  /\ UNCHANGED <<cache, workflow>>

\* return await fn();
FnReturns(v) ==
  /\ call.pc = "fn"
  /\ call' = [call EXCEPT !.pc = "returned",
                          !.fn = Append(@, [kind |-> "value", is |-> v, at |-> call.attempt]),
                          !.out = [kind |-> "value", is |-> v, at |-> call.attempt]]
  /\ UNCHANGED <<cache, workflow>>

\* the client-error test is left out of the catch block
FnThrows_RetryClientErrors(msg) ==
  /\ call.pc = "fn"
  /\ LET err == [kind |-> "error", is |-> msg, at |-> call.attempt] IN
       IF call.attempt >= call.maxRetries
         THEN call' = [call EXCEPT !.pc = "thrown", !.fn = Append(@, err), !.out = err]
         ELSE call' = [call EXCEPT !.pc = "fn", !.fn = Append(@, err),
                                   !.waits = Append(@, call.delay),
                                   !.delay = @ * 2,
                                   !.attempt = @ + 1]
  /\ UNCHANGED <<cache, workflow>>

\* delay *= 2 is left out: every wait is initialDelayMs long
FnThrows_NoDoubling(msg) ==
  /\ call.pc = "fn"
  /\ LET err == [kind |-> "error", is |-> msg, at |-> call.attempt] IN
       IF is4xx(msg) \/ call.attempt >= call.maxRetries
         THEN call' = [call EXCEPT !.pc = "thrown", !.fn = Append(@, err), !.out = err]
         ELSE call' = [call EXCEPT !.pc = "fn", !.fn = Append(@, err),
                                   !.waits = Append(@, call.delay),
                                   !.attempt = @ + 1]
  /\ UNCHANGED <<cache, workflow>>

\* catch (err): throw it when it is a client error or the attempts are used
\* up; otherwise sleep for delay, double it and go round the loop
FnThrows(msg) ==
  /\ call.pc = "fn"
  /\ LET err == [kind |-> "error", is |-> msg, at |-> call.attempt] IN
       IF is4xx(msg) \/ call.attempt >= call.maxRetries
         THEN call' = [call EXCEPT !.pc = "thrown", !.fn = Append(@, err), !.out = err]
         ELSE call' = [call EXCEPT !.pc = "fn", !.fn = Append(@, err),
                                   !.waits = Append(@, call.delay),
                                   !.delay = @ * 2,
                                   !.attempt = @ + 1]
  /\ UNCHANGED <<cache, workflow>>

NextRetry ==
  \/ \E mr \in MaxRetriesValues, d0 \in InitialDelays : withRetry(mr, d0)
  \/ \E v \in Values : FnReturns(v)
  \/ \E msg \in Messages : FnThrows(msg)

SpecRetry == InitRetry /\ [][NextRetry]_vars

\* every invocation of the operation terminates and every timer fires
SpecRetryLive == SpecRetry /\ WF_vars(NextRetry)

\* the invocations of the operation a call has made so far
Invocations == Len(call.fn) + (IF call.pc = "fn" THEN 1 ELSE 0)

RECURSIVE Pow2(_)
Pow2(n) == IF n = 0 THEN 1 ELSE 2 * Pow2(n - 1)

\* C25: the operation is invoked at most maxRetries times; the wait before
\* attempt k+1 is initialDelayMs * 2^(k-1); an error without a client-error
\* marker is retried while attempts are left; the first value the operation
\* returns is returned and nothing is invoked after it; when every attempt
\* failed the error of the last attempt is thrown; every call that has
\* started returns or throws.
C25_BoundedRetry ==
  /\ [](call.pc # "idle" =>
          /\ Invocations <= call.maxRetries
          /\ Invocations = call.attempt
          /\ Len(call.waits) = call.attempt - 1
          /\ \A k \in 1..Len(call.waits) : call.waits[k] = call.initialDelayMs * Pow2(k - 1)
          /\ \A i \in 1..(Len(call.fn) - 1) :
                call.fn[i].kind = "error" /\ ~is4xx(call.fn[i].is)
          /\ call.pc = "returned" =>
                (call.fn[Len(call.fn)].kind = "value" /\ call.out = call.fn[Len(call.fn)])
          /\ call.pc = "thrown" =>
                /\ call.fn[Len(call.fn)].kind = "error"
                /\ call.out = call.fn[Len(call.fn)]
                /\ ~is4xx(call.out.is) => Len(call.fn) = call.maxRetries)
  /\ (call.pc # "idle") ~> (call.pc \in {"returned", "thrown"})

C25_Witness ==
  /\ call.pc = "thrown"
  /\ call.maxRetries = DefaultMaxRetries
  /\ Len(call.fn) = DefaultMaxRetries
  /\ ~is4xx(call.out.is)
  /\ call.out.at = DefaultMaxRetries
  /\ call.waits = <<DefaultInitialDelayMs, 2 * DefaultInitialDelayMs>>

(***************************************************************************)
(* Sprint analytics over the daily task snapshots                          *)
(* (sprint-task-snapshot:<sprint>:<day>, a list of {id, name, status, sp}) *)
(***************************************************************************)
\* civil days are counted from an arbitrary origin; Today is the day D passed
\* by the caller, the store holds the days D-8..D-1 of the sprint asked about
Today == 9
WindowDays == 7
SnapshotDays == (Today - WindowDays - 1)..(Today - 1)
SprintIds == {"sprint-1", "sprint-2"}
\* what the store holds under a snapshot key: the stored list, or nothing
Stored(list) == [exists |-> TRUE, tasks |-> list]
NoSnapshot == [exists |-> FALSE, tasks |-> <<>>]

\* status: null and sp: null of a snapshot entry (the sizes in the data are
\* not negative), and the null an analytics function returns for "no data"
NoStatus == <<"(null)">>
NoSp == 0 - 1
NoData == [data |-> "none"]

\* a status is the string cut into the pieces includes() can find; the
\* Japanese status names are written in Latin letters
Lower(piece) ==
  CASE piece = "Doing" -> "doing"
    [] piece = "DONE" -> "done"
    [] piece = "Done" -> "done"
    [] piece = "In Progress" -> "in progress"
    [] piece = "Completed" -> "completed"
    [] piece = "Closed" -> "closed"
    [] piece = "Resolved" -> "resolved"
    [] OTHER -> piece
toLowerCase(status) == [i \in 1..Len(status) |-> Lower(status[i])]
includes(status, word) == \E i \in 1..Len(status) : status[i] = word

COMPLETED_STATUSES ==
  {"kanryo", "Done", "Closed", "kanryo-zumi", "Completed", "Resolved", "shuryo", "kurozu"}
DOING_STATUSES == {"doing", "shinkochu", "in progress", "jikkochu"}

\* if (!status) return false; some(s => status.toLowerCase().includes(s.toLowerCase()))
isCompletedStatus(status) ==
  /\ status # NoStatus
  /\ status # <<>>
  /\ \E s \in COMPLETED_STATUSES : includes(toLowerCase(status), Lower(s))

Task(id, status, sp) == [id |-> id, name |-> id, status |-> status, sp |-> sp]

\* kv.get(`sprint-task-snapshot:${sprintId}:${day}`, "json")
getSnapshot(sprintId, day) ==
  IF <<sprintId, day>> \in DOMAIN cache THEN cache[<<sprintId, day>>] ELSE NoSnapshot

\* new Map(list.map(t => [t.id, t])): the last entry of an id is the one kept
MapHas(list, id) == \E i \in 1..Len(list) : list[i].id = id
MapGet(list, id) ==
  list[CHOOSE i \in 1..Len(list) :
         list[i].id = id /\ \A j \in (i + 1)..Len(list) : list[j].id # id]

\* sp ?? 0
OrZero(sp) == IF sp = NoSp THEN 0 ELSE sp

\* variant: an entry of prevRaw that is not completed and no longer in
\* currentRaw counts as completed, with the size it had
RECURSIVE DailySp_CountsGone(_, _, _)
DailySp_CountsGone(currentRaw, prevRaw, n) ==
  IF n > Len(currentRaw)
    THEN IF n > Len(currentRaw) + Len(prevRaw) THEN 0
         ELSE LET prev == prevRaw[n - Len(currentRaw)] IN
           (IF ~MapHas(currentRaw, prev.id) /\ ~isCompletedStatus(prev.status)
              THEN OrZero(prev.sp) ELSE 0)
           + DailySp_CountsGone(currentRaw, prevRaw, n + 1)
  ELSE LET task == currentRaw[n] IN
    (IF /\ MapHas(prevRaw, task.id)
        /\ isCompletedStatus(task.status)
        /\ ~isCompletedStatus(MapGet(prevRaw, task.id).status)
       THEN OrZero(task.sp) ELSE 0)
    + DailySp_CountsGone(currentRaw, prevRaw, n + 1)

\* the inner loop over currentRaw, from entry n on
RECURSIVE DailySp(_, _, _)
DailySp(currentRaw, prevRaw, n) ==
  IF n > Len(currentRaw) THEN 0
  ELSE LET task == currentRaw[n] IN
    (IF /\ MapHas(prevRaw, task.id)
        /\ isCompletedStatus(task.status)
        /\ ~isCompletedStatus(MapGet(prevRaw, task.id).status)
       THEN OrZero(task.sp) ELSE 0)
    + DailySp(currentRaw, prevRaw, n + 1)

\* avgDailySp is kept in units of 1/2100 SP: the division by 1..7 and the
\* rounding to hundredths are exact
SpUnit == 2100

\* a day-pair without one of its snapshots counts as a day with nothing done
RECURSIVE ConsumptionLoop_MissingAsZero(_, _, _, _, _)
ConsumptionLoop_MissingAsZero(sprintId, today, i, totalCompletedSp, daysWithData) ==
  IF i > WindowDays
    THEN IF daysWithData = 0 THEN NoData
         ELSE [avgDailySp |-> (totalCompletedSp * SpUnit) \div daysWithData,
               daysWithData |-> daysWithData]
  ELSE LET currentRaw == getSnapshot(sprintId, today - i)
           prevRaw == getSnapshot(sprintId, today - i - 1)
       IN IF currentRaw = NoSnapshot \/ prevRaw = NoSnapshot
            THEN ConsumptionLoop_MissingAsZero(sprintId, today, i + 1, totalCompletedSp, daysWithData + 1)
            ELSE ConsumptionLoop_MissingAsZero(sprintId, today, i + 1,
                   totalCompletedSp + DailySp(currentRaw.tasks, prevRaw.tasks, 1), daysWithData + 1)

\* for (let i = 1; i <= 7; i++) { ... }  and the return after it
RECURSIVE ConsumptionLoop(_, _, _, _, _)
ConsumptionLoop(sprintId, today, i, totalCompletedSp, daysWithData) ==
  IF i > WindowDays
    THEN IF daysWithData = 0 THEN NoData
         ELSE [avgDailySp |-> (totalCompletedSp * SpUnit) \div daysWithData,
               daysWithData |-> daysWithData]
  ELSE LET currentRaw == getSnapshot(sprintId, today - i)
           prevRaw == getSnapshot(sprintId, today - i - 1)
       IN IF currentRaw = NoSnapshot \/ prevRaw = NoSnapshot
            THEN ConsumptionLoop(sprintId, today, i + 1, totalCompletedSp, daysWithData)
            ELSE ConsumptionLoop(sprintId, today, i + 1,
                   totalCompletedSp + DailySp(currentRaw.tasks, prevRaw.tasks, 1), daysWithData + 1)

calculateAvgDailySpConsumption(sprintId, today) ==
  ConsumptionLoop(sprintId, today, 1, 0, 0)

\* the snapshots a day of the sprint may hold
ConsumptionSnapshots ==
  { NoSnapshot,
    Stored(<< Task("a", <<"Doing">>, 3), Task("b", NoStatus, NoSp) >>),
    Stored(<< Task("a", <<"Done">>, 5), Task("b", <<"In Progress">>, 2) >>),
    Stored(<< Task("b", <<"kanryo">>, NoSp), Task("c", <<"DONE">>, 7) >>) }

\* the other sprint has a snapshot on every day, and no task in it
OtherSprint == Stored(<<>>)

AnalyticsIdle == [op |-> "none"]

InitConsumption ==
  /\ hasCtx = TRUE
  /\ InitStore
  /\ dryRun = FALSE
  /\ \E days \in [SnapshotDays -> ConsumptionSnapshots] :
       cache = [key \in SprintIds \X SnapshotDays |->
                  IF key[1] = "sprint-1" THEN days[key[2]] ELSE OtherSprint]
  /\ call = AnalyticsIdle

CallAvgDailySp(sprintId, today) ==
  /\ call = AnalyticsIdle
  /\ call' = [op |-> "calculateAvgDailySpConsumption", sprintId |-> sprintId, today |-> today,
              result |-> calculateAvgDailySpConsumption(sprintId, today)]
  /\ UNCHANGED <<cache, workflow>>

NextConsumption ==
  \E sprintId \in SprintIds, today \in {Today, Today + 1} : CallAvgDailySp(sprintId, today)

SpecConsumption == InitConsumption /\ [][NextConsumption]_vars

\* the sum of f over the set S
RECURSIVE Sum(_, _)
Sum(f, S) == IF S = {} THEN 0 ELSE LET x == CHOOSE y \in S : TRUE IN f[x] + Sum(f, S \ {x})

\* the day-pairs (D-i, D-i-1) of which both snapshots exist
ValidPairs(sprintId, today) ==
  { i \in 1..WindowDays :
      /\ getSnapshot(sprintId, today - i) # NoSnapshot
      /\ getSnapshot(sprintId, today - i - 1) # NoSnapshot }

\* the size completed in day-pair i: the entries of the later snapshot that are
\* completed there and non-completed in the earlier one
CompletedIn(sprintId, today, i) ==
  LET later == getSnapshot(sprintId, today - i).tasks
      earlier == getSnapshot(sprintId, today - i - 1).tasks
      done == { n \in 1..Len(later) :
                  /\ isCompletedStatus(later[n].status)
                  /\ \E m \in 1..Len(earlier) :
                       earlier[m].id = later[n].id /\ ~isCompletedStatus(earlier[m].status) }
  IN Sum([n \in done |-> OrZero(later[n].sp)], done)

\* C26: the result of calculateAvgDailySpConsumption is the size completed
\* over the valid day-pairs among the 7 pairs (D-i, D-i-1), a size of null
\* counting as 0, divided by the number of valid pairs (pairs with a missing
\* snapshot are left out of the divisor); with no valid pair it is null, not 0.
C26_AvgDailyConsumption ==
  call.op = "calculateAvgDailySpConsumption" =>
    LET valid == ValidPairs(call.sprintId, call.today)
        total == Sum([i \in valid |-> CompletedIn(call.sprintId, call.today, i)], valid)
    IN IF valid = {}
         THEN call.result = NoData
         ELSE /\ call.result # NoData
              /\ call.result.daysWithData = Cardinality(valid)
              /\ call.result.avgDailySp * Cardinality(valid) = total * SpUnit

C26_Witness ==
  /\ call.op = "calculateAvgDailySpConsumption"
  /\ call.today = Today
  /\ call.result # NoData
  /\ call.result.daysWithData = WindowDays
  /\ call.result.avgDailySp > 0

(***************************************************************************)
(* detectStagnantDoingTasks                                                *)
(***************************************************************************)
StaleOffset == 2

\* t.status && DOING_STATUSES.some(s => t.status.toLowerCase().includes(s))
isDoing(t) ==
  /\ t.status # NoStatus
  /\ t.status # <<>>
  /\ \E s \in DOING_STATUSES : includes(toLowerCase(t.status), s)

\* the loop over doingTasks, from entry n on
RECURSIVE StagnantLoop(_, _, _)
StagnantLoop(doingTasks, oldSnapshot, n) ==
  IF n > Len(doingTasks) THEN <<>>
  ELSE LET task == doingTasks[n] IN
    (IF MapHas(oldSnapshot, task.id) /\ MapGet(oldSnapshot, task.id).status = task.status
       THEN << [id |-> task.id, name |-> task.name, staleDays |-> StaleOffset] >>
       ELSE <<>>)
    \o StagnantLoop(doingTasks, oldSnapshot, n + 1)

\* the snapshot compared with is yesterday's
detectStagnantDoingTasks_Yesterday(sprintId, today, currentTasks) ==
  LET doingTasks == SelectSeq(currentTasks, isDoing) IN
    IF doingTasks = <<>> THEN <<>>
    ELSE LET oldSnapshot == getSnapshot(sprintId, today - 1) IN
      IF oldSnapshot = NoSnapshot THEN <<>>
      ELSE StagnantLoop(doingTasks, oldSnapshot.tasks, 1)

detectStagnantDoingTasks(sprintId, today, currentTasks) ==
  LET doingTasks == SelectSeq(currentTasks, isDoing) IN
    IF doingTasks = <<>> THEN <<>>
    ELSE LET oldSnapshot == getSnapshot(sprintId, today - StaleOffset) IN
      IF oldSnapshot = NoSnapshot THEN <<>>
      ELSE StagnantLoop(doingTasks, oldSnapshot.tasks, 1)

Named(task, name) == [task EXCEPT !.name = name]

\* the lists a day D-3..D-1 of the sprint may hold
StagnantSnapshots ==
  { NoSnapshot,
    Stored(<<>>),
    Stored(<< Task("a", <<"Doing">>, 3), Task("b", <<"DOING">>, 2), Task("c", <<"Todo">>, 1),
              Task("d", NoStatus, NoSp), Task("h", <<"Not ", "Doing">>, 1) >>),
    Stored(<< Task("a", <<"In Progress">>, 3), Task("b", <<"Doing">>, 2),
              Task("e", <<"shinkochu">>, NoSp), Task("e", <<"shinkochu">>, NoSp) >>) }

\* the current tasks of the caller; a task of two assignees is listed twice
CurrentTaskLists ==
  { <<>>,
    << Task("c", <<"Todo">>, 1), Task("d", NoStatus, NoSp), Task("g", <<"Done">>, 4) >>,
    << Named(Task("a", <<"Doing">>, 5), "a renamed"), Task("b", <<"Doing">>, 2),
       Task("c", <<"Todo">>, 1), Task("d", NoStatus, NoSp), Task("f", <<"jikkochu">>, 1),
       Task("h", <<"Not ", "Doing">>, 1) >>,
    << Task("a", <<"In Progress">>, 3), Task("e", <<"shinkochu">>, NoSp),
       Task("e", <<"shinkochu">>, NoSp), Task("b", <<"DOING">>, 2), Task("i", <<>>, 1) >> }

InitStagnant ==
  /\ hasCtx = TRUE
  /\ InitStore
  /\ dryRun = FALSE
  /\ \E days \in [(Today - 3)..(Today - 1) -> StagnantSnapshots] :
       cache = [key \in SprintIds \X ((Today - 3)..(Today - 1)) |->
                  IF key[1] = "sprint-1" THEN days[key[2]] ELSE OtherSprint]
  /\ call = AnalyticsIdle

CallDetectStagnant(sprintId, today, currentTasks) ==
  /\ call = AnalyticsIdle
  /\ call' = [op |-> "detectStagnantDoingTasks", sprintId |-> sprintId, today |-> today,
              currentTasks |-> currentTasks,
              result |-> detectStagnantDoingTasks(sprintId, today, currentTasks)]
  /\ UNCHANGED <<cache, workflow>>

NextStagnant ==
  \E sprintId \in SprintIds, today \in {Today, Today + 1}, currentTasks \in CurrentTaskLists :
    CallDetectStagnant(sprintId, today, currentTasks)

SpecStagnant == InitStagnant /\ [][NextStagnant]_vars

\* C27: the result lists, in the order of the current tasks, exactly the
\* entries whose status is an in-progress one and whose id is in the
\* snapshot of day D-2 with the very same status string, each with
\* staleDays 2 and its current name; without a D-2 snapshot the result is
\* empty whatever the snapshots of the other days hold.
C27_StagnantDoing ==
  call.op = "detectStagnantDoingTasks" =>
    LET old == getSnapshot(call.sprintId, call.today - 2)
        stale == SelectSeq(call.currentTasks,
                   LAMBDA t : /\ isDoing(t)
                              /\ old # NoSnapshot
                              /\ \E m \in 1..Len(old.tasks) :
                                   old.tasks[m].id = t.id /\ old.tasks[m].status = t.status)
    IN /\ Len(call.result) = Len(stale)
       /\ \A n \in 1..Len(stale) :
            call.result[n] = [id |-> stale[n].id, name |-> stale[n].name, staleDays |-> 2]
       /\ old = NoSnapshot => call.result = <<>>

C27_Witness ==
  /\ call.op = "detectStagnantDoingTasks"
  /\ call.sprintId = "sprint-1"
  /\ call.today = Today
  /\ getSnapshot("sprint-1", Today - 1) # NoSnapshot
  /\ getSnapshot("sprint-1", Today - 3) # NoSnapshot
  /\ \E n \in 1..Len(call.result) :
       call.result[n] = [id |-> "a", name |-> "a renamed", staleDays |-> 2]
  /\ \A n \in 1..Len(call.result) : call.result[n].id # "b"

(***************************************************************************)
(* calculateWeeklyDiff                                                     *)
(***************************************************************************)
WeekOffset == 7

Entry(task) == [id |-> task.id, name |-> task.name, sp |-> task.sp]

\* only a task still listed and completed counts; a vanished one does not
RECURSIVE CompletedLoop_ListedOnly(_, _, _)
CompletedLoop_ListedOnly(oldSnapshot, currentTasks, n) ==
  IF n > Len(oldSnapshot) THEN <<>>
  ELSE LET old == oldSnapshot[n] IN
    (IF /\ ~isCompletedStatus(old.status)
        /\ MapHas(currentTasks, old.id)
        /\ isCompletedStatus(MapGet(currentTasks, old.id).status)
       THEN << Entry(old) >> ELSE <<>>)
    \o CompletedLoop_ListedOnly(oldSnapshot, currentTasks, n + 1)

\* for (const old of oldSnapshot): push when it was not completed then and is
\* gone or completed now
RECURSIVE CompletedLoop(_, _, _)
CompletedLoop(oldSnapshot, currentTasks, n) ==
  IF n > Len(oldSnapshot) THEN <<>>
  ELSE LET old == oldSnapshot[n] IN
    (IF /\ ~isCompletedStatus(old.status)
        /\ \/ ~MapHas(currentTasks, old.id)
           \/ isCompletedStatus(MapGet(currentTasks, old.id).status)
       THEN << Entry(old) >> ELSE <<>>)
    \o CompletedLoop(oldSnapshot, currentTasks, n + 1)

\* for (const task of currentTasks): push when its id was not in the old list
RECURSIVE NewLoop(_, _, _)
NewLoop(oldSnapshot, currentTasks, n) ==
  IF n > Len(currentTasks) THEN <<>>
  ELSE (IF ~MapHas(oldSnapshot, currentTasks[n].id) THEN << Entry(currentTasks[n]) >> ELSE <<>>)
       \o NewLoop(oldSnapshot, currentTasks, n + 1)

\* list.reduce((sum, t) => sum + (t.sp ?? 0), 0)
RECURSIVE TotalSp(_)
TotalSp(list) == IF list = <<>> THEN 0 ELSE OrZero(Head(list).sp) + TotalSp(Tail(list))

calculateWeeklyDiff(sprintId, today, currentTasks) ==
  LET oldSnapshot == getSnapshot(sprintId, today - WeekOffset) IN
    IF oldSnapshot = NoSnapshot THEN NoData
    ELSE LET completedTasks == CompletedLoop(oldSnapshot.tasks, currentTasks, 1)
             newTasks == NewLoop(oldSnapshot.tasks, currentTasks, 1)
         IN [periodStart |-> today - WeekOffset,
             periodEnd |-> today,
             completedTasks |-> completedTasks,
             totalCompletedSp |-> TotalSp(completedTasks),
             newTasks |-> newTasks,
             totalNewSp |-> TotalSp(newTasks)]

\* the lists a day D-8..D-6 of the sprint may hold
WeeklySnapshots ==
  { NoSnapshot,
    Stored(<<>>),
    Stored(<< Task("a", <<"Doing">>, 3), Task("b", <<"Todo">>, NoSp), Task("c", <<"Done">>, 8),
              Task("d", NoStatus, 2), Task("e", <<"Todo">>, 1) >>),
    Stored(<< Task("a", <<"Doing">>, 1), Task("f", <<"Re", "Closed">>, 4) >>) }

\* the current tasks of the caller
WeeklyTaskLists ==
  { <<>>,
    << Named(Task("a", <<"DONE">>, 5), "a renamed"), Task("c", <<"Done">>, 8),
       Task("e", <<"Todo">>, 6), Task("g", <<"Doing">>, 7), Task("h", <<"kanryo">>, NoSp) >>,
    << Task("a", <<"Doing">>, 3), Task("b", <<"Todo">>, NoSp), Task("c", <<"Done">>, 8),
       Task("d", NoStatus, 2), Task("e", <<"Todo">>, 1) >> }

InitWeekly ==
  /\ hasCtx = TRUE
  /\ InitStore
  /\ dryRun = FALSE
  /\ \E days \in [(Today - 8)..(Today - 6) -> WeeklySnapshots] :
       cache = [key \in SprintIds \X ((Today - 8)..(Today - 6)) |->
                  IF key[1] = "sprint-1" THEN days[key[2]] ELSE OtherSprint]
  /\ call = AnalyticsIdle

CallWeeklyDiff(sprintId, today, currentTasks) ==
  /\ call = AnalyticsIdle
  /\ call' = [op |-> "calculateWeeklyDiff", sprintId |-> sprintId, today |-> today,
              currentTasks |-> currentTasks,
              result |-> calculateWeeklyDiff(sprintId, today, currentTasks)]
  /\ UNCHANGED <<cache, workflow>>

NextWeekly ==
  \E sprintId \in SprintIds, today \in {Today, Today + 1}, currentTasks \in WeeklyTaskLists :
    CallWeeklyDiff(sprintId, today, currentTasks)

SpecWeekly == InitWeekly /\ [][NextWeekly]_vars

\* the sizes of a list of entries added up, null as 0
SizeOf(list) == Sum([n \in 1..Len(list) |-> OrZero(list[n].sp)], 1..Len(list))

\* C28: with a snapshot of day D-7 the completed bucket holds exactly the
\* entries of that snapshot that were not completed then and are completed
\* or no longer listed now, with the size they had at D-7, and the new bucket
\* exactly the current entries whose id the snapshot does not hold, with
\* their current size; each total is the sum of its bucket's sizes; without
\* that snapshot the result is null, which two empty buckets are not.
C28_WeeklyDiff ==
  call.op = "calculateWeeklyDiff" =>
    LET old == getSnapshot(call.sprintId, call.today - 7)
        now == call.currentTasks
        done == SelectSeq(old.tasks,
                  LAMBDA o : /\ ~isCompletedStatus(o.status)
                             /\ \/ \A n \in 1..Len(now) : now[n].id # o.id
                                \/ \E n \in 1..Len(now) :
                                     now[n].id = o.id /\ isCompletedStatus(now[n].status))
        new == SelectSeq(now, LAMBDA t : \A m \in 1..Len(old.tasks) : old.tasks[m].id # t.id)
    IN IF old = NoSnapshot
         THEN call.result = NoData
         ELSE /\ call.result # NoData
              /\ call.result.completedTasks = [n \in 1..Len(done) |-> Entry(done[n])]
              /\ call.result.newTasks = [n \in 1..Len(new) |-> Entry(new[n])]
              /\ call.result.totalCompletedSp = SizeOf(done)
              /\ call.result.totalNewSp = SizeOf(new)

C28_Witness ==
  /\ call.op = "calculateWeeklyDiff"
  /\ call.sprintId = "sprint-1"
  /\ call.result # NoData
  /\ \E n \in 1..Len(call.result.completedTasks) :
       call.result.completedTasks[n] = [id |-> "b", name |-> "b", sp |-> NoSp]
  /\ \E n \in 1..Len(call.result.completedTasks) :
       call.result.completedTasks[n] = [id |-> "a", name |-> "a", sp |-> 3]
  /\ \E n \in 1..Len(call.result.newTasks) :
       call.result.newTasks[n] = [id |-> "g", name |-> "g", sp |-> 7]
  /\ call.result.totalCompletedSp = 5
  /\ call.result.totalNewSp = 7

(***************************************************************************)
(* The fallback estimator calcAvgDailySpFromSprint and the three callers   *)
(* that obtain an average daily consumption.                               *)
(***************************************************************************)
\* a field that is a number, or is not there (typeof x !== "number")
Num(v) == [isNumber |-> TRUE, value |-> v]
Undefined == [isNumber |-> FALSE, value |-> 0]

\* the null of calcAvgDailySpFromSprint and of the callers' avgDailySp
NoPace == 0 - 1

Max(a, b) == IF a > b THEN a ELSE b

\* Math.round((n / d) * 100) / 100 for n >= 0, in units of 1/SpUnit
Round100(n, d) == ((200 * n + d) \div (2 * d)) * (SpUnit \div 100)

\* summary.assignees.reduce(... + (t.sp ?? 0))
RECURSIVE RemainingSp(_)
RemainingSp(tasks) == IF tasks = <<>> THEN 0 ELSE OrZero(Head(tasks).sp) + RemainingSp(Tail(tasks))

calcAvgDailySpFromSprint(summary, today) ==
  LET elapsedDays == Max(today - summary.start_date, 1)
      remainingSp == RemainingSp(summary.tasks)
      progressSp ==
        IF ~summary.progress_sp.isNumber /\ summary.plan_sp.isNumber
          THEN Num(summary.plan_sp.value - remainingSp)
          ELSE summary.progress_sp
      remainingDays == Max(summary.end_date - today, 1)
  IN IF progressSp.isNumber /\ progressSp.value > 0
       THEN Round100(progressSp.value, elapsedDays)
       ELSE IF remainingSp > 0 THEN Round100(remainingSp, remainingDays)
       ELSE NoPace

PaceCallers == {"runMorningFlow", "runEveningFlow", "handleMention"}

Summaries ==
  [start_date : {Today - 4, Today},
   end_date : {Today, Today + 5},
   tasks : { <<>>, << Task("a", <<"Doing">>, 3), Task("b", <<"Todo">>, NoSp), Task("c", <<"Todo">>, 5) >> },
   progress_sp : {Undefined, Num(0), Num(6)},
   plan_sp : {Undefined, Num(20), Num(8)}]

InitPace ==
  /\ hasCtx = TRUE
  /\ InitStore
  /\ dryRun = FALSE
  /\ \E days \in [(Today - 2)..(Today - 1) -> ConsumptionSnapshots] :
       cache = [key \in {"sprint-1"} \X ((Today - 2)..(Today - 1)) |-> days[key[2]]]
  /\ call = AnalyticsIdle

\* let avgDailySp = spConsumption ? spConsumption.avgDailySp : null;
\* if (avgDailySp == null) avgDailySp = calcAvgDailySpFromSprint(summary, today);
\* the morning flow also sets and logs avgDailySpSource; every caller hands
\* the number alone to the analysis that follows
ObtainAvgDailySp(caller, summary) ==
  /\ call = AnalyticsIdle
  /\ LET spConsumption == calculateAvgDailySpConsumption("sprint-1", Today)
         fallback == calcAvgDailySpFromSprint(summary, Today)
         avgDailySp == IF spConsumption # NoData THEN spConsumption.avgDailySp ELSE fallback
         avgDailySpSource ==
           IF caller # "runMorningFlow" THEN "none"
           ELSE IF spConsumption # NoData THEN "kv_7day"
           ELSE IF fallback # NoPace THEN "sprint_progress"
           ELSE "null"
     IN call' = [op |-> caller, summary |-> summary, spConsumption |-> spConsumption,
                 calledFallback |-> (spConsumption = NoData),
                 avgDailySp |-> avgDailySp,
                 logged |-> avgDailySpSource,
                 passed |-> [avgDailySp |-> avgDailySp, source |-> "none"]]
  /\ UNCHANGED <<cache, workflow>>

NextPace ==
  \E caller \in PaceCallers, summary \in Summaries : ObtainAvgDailySp(caller, summary)

SpecPace == InitPace /\ [][NextPace]_vars

\* which estimator a caller's figure comes from
Estimator(spConsumption, summary, today) ==
  IF spConsumption # NoData THEN "snapshot history"
  ELSE IF calcAvgDailySpFromSprint(summary, today) = NoPace THEN "none"
  ELSE IF \/ summary.progress_sp.isNumber /\ summary.progress_sp.value > 0
          \/ /\ ~summary.progress_sp.isNumber
             /\ summary.plan_sp.isNumber
             /\ summary.plan_sp.value - RemainingSp(summary.tasks) > 0
    THEN "actual pace"
  ELSE "required pace"

\* the estimator a caller has put on record for its figure: the label of the
\* morning flow, otherwise what goes along with the number handed on
Recorded ==
  CASE call.logged = "kv_7day" -> "snapshot history"
    [] call.logged = "sprint_progress" -> "actual pace"
    [] OTHER -> call.passed.source

\* C29: every caller that obtains an average daily consumption has on record
\* the estimator the figure comes from (snapshot history, actual pace,
\* required pace), so that a required-pace figure can be told from an
\* actual-pace one; the fallback estimator is called only when the snapshot
\* result is null.
C29_EstimatorTracked ==
  call.op \in PaceCallers =>
    /\ call.calledFallback => call.spConsumption = NoData
    /\ call.avgDailySp # NoPace =>
         Recorded = Estimator(call.spConsumption, call.summary, Today)

\* the BackRef of thread t leads to a live PendingAction that names t
InSync(t) ==
  createRef[t] # NoMsg =>
    (pendingAction[createRef[t]] # Null /\ pendingAction[createRef[t]].threadTs = t)

\* C30: while no handler is in progress every BackRef leads to a live
\* PendingAction that names its thread (so a handler that has consumed a
\* PendingAction, by approval, cancel or replacement, has deleted the BackRef
\* to it); and no step deletes a BackRef that leads to another, still live
\* PendingAction.
C30_BackRefInSync ==
  /\ []((\A p \in Procs : At(p, "idle")) => \A t \in Threads : InSync(t))
  /\ [][\A t \in Threads :
          (createRef[t] # NoMsg /\ createRef'[t] = NoMsg) =>
            pendingAction'[createRef[t]] = Null]_vars

\* ------------------------------------------------ the day's report record
\* C31: once the ReportThreadState of the day is processed no step changes
\* it: no operation, another run of the evening flow on the same day
\* included, sets it back to pending or replaces the message id (and with
\* it the proposal) it stores.
C31_ProcessedIsFinal ==
  [][pmThread.state = "processed" => pmThread' = pmThread]_vars

(***************************************************************************)
(* ReplyLog (appendReply): the list under reply:{channel}:{threadTs} is    *)
(* read, extended in memory and written back by separate store operations, *)
(* from the invocations that handle the replies of a thread.               *)
(***************************************************************************)
ReplyThreads == {"T1", "T2"}

ReplyIdle == [pc |-> "idle", key |-> "", reply |-> 0, replies |-> <<>>]

\* no reply stored yet; accepted: the replies handed to appendReply, by
\* thread, in the order they arrived
InitReplies ==
  /\ hasCtx = TRUE
  /\ InitStore
  /\ cache = [t \in ReplyThreads |-> <<>>]
  /\ call = [run |-> [p \in Procs |-> ReplyIdle],
             accepted |-> [t \in ReplyThreads |-> <<>>],
             count |-> 0]

\* const existing = await kv.get(key);
\* const replies = existing ? JSON.parse(existing) : [];
appendReply(p, t) ==
  /\ call.run[p].pc = "idle"
  /\ call.count < MaxCalls
  /\ call' = [call EXCEPT !.run[p] = [pc |-> "put", key |-> t, reply |-> call.count + 1,
                                      replies |-> cache[t]],
                          !.accepted[t] = Append(@, call.count + 1),
                          !.count = @ + 1]
  /\ UNCHANGED <<cache, workflow>>

\* replies.push(reply); await kv.put(key, JSON.stringify(replies), ...)
AppendReplyPut(p) ==
  /\ call.run[p].pc = "put"
  /\ cache' = [cache EXCEPT ![call.run[p].key] = Append(call.run[p].replies, call.run[p].reply)]
  /\ call' = [call EXCEPT !.run[p] = ReplyIdle]
  /\ UNCHANGED workflow

NextReplies ==
  \/ \E p \in Procs, t \in ReplyThreads : appendReply(p, t)
  \/ \E p \in Procs : AppendReplyPut(p)

SpecReplies == InitReplies /\ [][NextReplies]_vars

\* C32: once the handlers have finished, the ReplyLog of every thread holds
\* every reply accepted for the thread, in arrival order, and nothing else;
\* and no step removes a reply from a log (append-only). Two replies to one
\* thread handled by concurrent invocations are included.
C32_NothingLost ==
  /\ []((\A p \in Procs : call.run[p].pc = "idle") =>
          \A t \in ReplyThreads : cache[t] = call.accepted[t])
  /\ [][\A t \in ReplyThreads :
          /\ Len(cache'[t]) >= Len(cache[t])
          /\ SubSeq(cache'[t], 1, Len(cache[t])) = cache[t]]_vars

(***************************************************************************)
(* Phone reminders: subscriptions under phone-reminder:{user}:{channel}:   *)
(* {ts}, the DM back-reference written by the reaction flow, and the       *)
(* hourly flow that lists the subscriptions and then works on its list.    *)
(***************************************************************************)
\* the subscriptions (user, channel, thread), in the order kv.list gives them
SubOrder == <<"U1:C:T1", "U2:C:T1">>
Subs == {SubOrder[i] : i \in DOMAIN SubOrder}

\* a subscription record by its lastRemindedAt: absent, less than an hour
\* old ("fresh"), an hour old or more ("due")
PhoneIdle == [pc |-> "idle", reminders |-> <<>>]

InitPhone ==
  /\ hasCtx = TRUE
  /\ InitStore
  /\ cache = [rem |-> [s \in Subs |-> "absent"], dm |-> [s \in Subs |-> FALSE]]
  /\ call = [flow |-> PhoneIdle, subscribed |-> [s \in Subs |-> FALSE]]

\* handlePhoneReaction (the phone reaction) and the reminder shortcut: the
\* first DM is posted and the subscription saved with lastRemindedAt = now;
\* the reaction flow also saves the DM back-reference
handlePhoneReaction(s, shortcut) ==
  /\ cache' = [cache EXCEPT !.rem[s] = "fresh",
                            !.dm[s] = IF shortcut THEN @ ELSE TRUE]
  /\ call' = [call EXCEPT !.subscribed[s] = TRUE]
  /\ UNCHANGED workflow

\* handleReactionRemoved: deletePhoneReminder(userId, channel, messageTs)
handleReactionRemoved(s) ==
  /\ call.subscribed[s]
  /\ cache' = [cache EXCEPT !.rem[s] = "absent"]
  /\ call' = [call EXCEPT !.subscribed[s] = FALSE]
  /\ UNCHANGED workflow

\* handleReactionAdded on a reminder DM: getPhoneReminderDm finds the
\* back-reference and deletePhoneReminder deletes the subscription it names
DmReactionAdded(s) ==
  /\ cache.dm[s]
  /\ cache' = [cache EXCEPT !.rem[s] = "absent"]
  /\ call' = [call EXCEPT !.subscribed[s] = FALSE]
  /\ UNCHANGED workflow

\* an hour goes by: every stored lastRemindedAt is an hour old
HourPasses ==
  /\ \E s \in Subs : cache.rem[s] = "fresh"
  /\ cache' = [cache EXCEPT !.rem = [s \in Subs |-> IF cache.rem[s] = "fresh" THEN "due" ELSE cache.rem[s]]]
  /\ UNCHANGED <<call, workflow>>

\* the records listAllPhoneReminders returns, from position i on
RECURSIVE Listed(_)
Listed(i) ==
  IF i > Len(SubOrder) THEN <<>>
  ELSE IF cache.rem[SubOrder[i]] = "absent" THEN Listed(i + 1)
  ELSE <<[sub |-> SubOrder[i], lastRemindedAt |-> cache.rem[SubOrder[i]]]>> \o Listed(i + 1)

\* const reminders = await listAllPhoneReminders(kv); const now = new Date();
runPhoneReminderFlow ==
  /\ call.flow.pc = "idle"
  /\ Listed(1) # <<>>
  /\ call' = [call EXCEPT !.flow = [pc |-> "loop", reminders |-> Listed(1)]]
  /\ UNCHANGED <<cache, workflow>>

\* the loop is done with the reminder at the head of its list
NextReminder ==
  IF Len(call.flow.reminders) = 1 THEN PhoneIdle
  ELSE [pc |-> "loop", reminders |-> Tail(call.flow.reminders)]

\* one turn of the loop up to the DM: skipped when less than an hour has
\* passed, when the thread has no message or a call throws (ok = FALSE);
\* otherwise chatPostMessage sends the reminder DM
PhoneReminderPost(ok) ==
  /\ call.flow.pc = "loop"
  /\ IF Head(call.flow.reminders).lastRemindedAt = "due" /\ ok
       THEN call' = [call EXCEPT !.flow.pc = "save"]
       ELSE call' = [call EXCEPT !.flow = NextReminder]
  /\ UNCHANGED <<cache, workflow>>

\* savePhoneReminder(userId, channel, threadTs, {...reminder, lastRemindedAt: now})
PhoneReminderSave ==
  /\ call.flow.pc = "save"
  /\ cache' = [cache EXCEPT !.rem[Head(call.flow.reminders).sub] = "fresh"]
  /\ call' = [call EXCEPT !.flow = NextReminder]
  /\ UNCHANGED workflow

NextPhone ==
  \/ \E s \in Subs, shortcut \in BOOLEAN : handlePhoneReaction(s, shortcut)
  \/ \E s \in Subs : handleReactionRemoved(s)
  \/ \E s \in Subs : DmReactionAdded(s)
  \/ HourPasses
  \/ runPhoneReminderFlow
  \/ \E ok \in BOOLEAN : PhoneReminderPost(ok)
  \/ PhoneReminderSave

SpecPhone == InitPhone /\ [][NextPhone]_vars

\* C33: a subscription record is stored exactly while its last subscribe has
\* not been followed by an unsubscribe (phone reaction removed, or a
\* reaction on the reminder DM), and the hourly flow sends a reminder DM
\* only for a subscription that has not been unsubscribed, also when the
\* unsubscribe is processed while a run that listed the subscription is
\* under way.
C33_UnsubscribeStops ==
  /\ [](\A s \in Subs : (cache.rem[s] # "absent") <=> call.subscribed[s])
  /\ [][(call.flow.pc = "loop" /\ call'.flow.pc = "save") =>
          call.subscribed[Head(call.flow.reminders).sub]]_vars

(***************************************************************************)
(* Writing the snapshots (buildSprintTasksMeta): the key of the day is     *)
(* computed from the caller's clock reading, the previous day's snapshot   *)
(* is read, and the current items are put under the key of the day.        *)
(***************************************************************************)
JstOffsetHours == 9
HoursPerDay == 24

\* toJstDateString(date, offsetDays): the civil day in UTC+9 of an instant
\* given in hours, moved by offsetDays
toJstDateString(date, offsetDays) == ((date + JstOffsetHours) \div HoursPerDay) + offsetDays

\* the instants (hours, UTC) at which something happens: 14:00 and 15:00 of
\* the first day (23:00 and 00:00 JST), and the same of the second day
Instants == {14, 15, 38, 39}
WrittenDays == {toJstDateString(h, 0) : h \in Instants}

\* the items of the sprint's summary the invocation is given
SummaryItems ==
  { << Task("a", <<"Doing">>, 3) >>,
    << Task("a", <<"In Progress">>, 3), Task("b", NoStatus, NoSp) >> }

MetaIdle == [pc |-> "idle", sprintId |-> "", now |-> 0, items |-> <<>>]
NoWrite == [key |-> <<"", 0>>, now |-> 0, at |-> 0, over |-> NoSnapshot]

InitMeta ==
  /\ hasCtx = TRUE
  /\ InitStore
  /\ dryRun = FALSE
  /\ cache = [key \in SprintIds \X WrittenDays |-> NoSnapshot]
  /\ call = [clock |-> 14, run |-> MetaIdle, last |-> NoWrite]

\* time goes on, between invocations and while one awaits the store
Tick ==
  /\ \E h \in Instants : h > call.clock /\ call' = [call EXCEPT !.clock = h]
  /\ UNCHANGED <<cache, workflow>>

\* the caller's now = new Date() and summary; todayKey, snapshotKey and
\* currentSnapshot are computed, then the previous day's key is read
buildSprintTasksMeta(sprintId, items) ==
  /\ call.run.pc = "idle"
  /\ call' = [call EXCEPT !.run = [pc |-> "put", sprintId |-> sprintId, now |-> call.clock,
                                   items |-> items]]
  /\ UNCHANGED <<cache, workflow>>

\* the key is computed again from the clock at the time of the put
snapshotKey_AtPut(run) == <<run.sprintId, toJstDateString(call.clock, 0)>>

\* `sprint-task-snapshot:${summary.sprint.id}:${todayKey}`
snapshotKey(run) == <<run.sprintId, toJstDateString(run.now, 0)>>

\* await kv.put(snapshotKey, JSON.stringify(currentSnapshot), {expirationTtl})
SnapshotPut ==
  /\ call.run.pc = "put"
  /\ cache' = [cache EXCEPT ![snapshotKey(call.run)] = Stored(call.run.items)]
  /\ call' = [call EXCEPT !.run = MetaIdle,
                          !.last = [key |-> snapshotKey(call.run), now |-> call.run.now,
                                    at |-> call.clock, over |-> cache[snapshotKey(call.run)]]]
  /\ UNCHANGED workflow

NextMeta ==
  \/ Tick
  \/ \E sprintId \in SprintIds, items \in SummaryItems : buildSprintTasksMeta(sprintId, items)
  \/ SnapshotPut

SpecMeta == InitMeta /\ [][NextMeta]_vars

\* C34: an invocation of buildSprintTasksMeta changes the store in one step,
\* and that step sets exactly the key (sprint, D), D the civil day (UTC+9)
\* of the clock reading the invocation was given, to the invocation's items:
\* a second invocation on day D with the same items leaves the store as it
\* is, and the keys of the other days and of the other sprints keep their
\* values; no other step of an invocation changes the store.
C34_SnapshotWriteIsolation ==
  [][IF call.run.pc = "put" /\ call'.run.pc = "idle"
       THEN cache' = [cache EXCEPT
                        ![<<call.run.sprintId, (call.run.now + 9) \div 24>>] =
                          Stored(call.run.items)]
       ELSE cache' = cache]_vars

\* an invocation started at 23:00 JST of the first day has put its snapshot
\* after midnight: it has replaced the first day's snapshot, which held
\* other items, and the second day's key of the sprint is still empty
C34_Witness ==
  /\ call.run.pc = "idle"
  /\ call.last.now = 14 /\ call.last.at = 15
  /\ call.last.key = <<"sprint-1", 0>>
  /\ call.last.over.exists
  /\ call.last.over # cache[<<"sprint-1", 0>>]
  /\ cache[<<"sprint-1", 1>>] = NoSnapshot
  /\ cache[<<"sprint-2", 0>>].exists

(***************************************************************************)
(* The report runs (runReport, runSprintTasksReport): the summary is       *)
(* fetched and hashed, the dedup check stores the hash, and only then the  *)
(* payload is sent, or not sent.                                           *)
(***************************************************************************)
ReportFlows == {"runReport", "runSprintTasksReport"}

\* buildDedupKey(summary) and `sprint-tasks:${summary.sprint.id}`
dedupKey(flow) == IF flow = "runReport" THEN "sprint:1" ELSE "sprint-tasks:1"
ReportKeys == {dedupKey(flow) : flow \in ReportFlows}
SnapshotOfToday == "sprint-task-snapshot:1:today"

\* the configurations a run is deployed with
ReportConfigs == [dryRun : BOOLEAN, slackWebhookUrl : BOOLEAN]

ReportIdle == [pc |-> "idle", flow |-> "", hash |-> NoHash, config |-> [dryRun |-> FALSE, slackWebhookUrl |-> FALSE]]

InitReport ==
  /\ hasCtx = TRUE
  /\ InitStore
  /\ dryRun = FALSE
  /\ cache = [k \in ReportKeys \cup {SnapshotOfToday} |-> NoHash]
  /\ call = [run |-> ReportIdle, log |-> <<>>]

\* what a finished run did
Ran(run, dup, sent) ==
  [op |-> "run", key |-> dedupKey(run.flow), hash |-> run.hash, dup |-> dup, sent |-> sent]

\* the run up to the read of isDuplicateAndRemember: the summary is fetched
\* (runSprintTasksReport puts the day's snapshot of it) and hashed; when the
\* stored hash is the same the run returns skipped
ReportStart(flow, hash, config) ==
  /\ call.run.pc = "idle"
  /\ Len(call.log) < MaxCalls
  /\ cache' = IF flow = "runSprintTasksReport"
                THEN [cache EXCEPT ![SnapshotOfToday] = hash]
                ELSE cache
  /\ IF cache[dedupKey(flow)] = hash
       THEN call' = [call EXCEPT !.log = Append(@, Ran([flow |-> flow, hash |-> hash], TRUE, "skipped"))]
       ELSE call' = [call EXCEPT !.run = [pc |-> "put", flow |-> flow, hash |-> hash, config |-> config]]
  /\ UNCHANGED workflow

\* variant: the hash is not stored before the send
ReportRemember_Skipped ==
  /\ call.run.pc = "put"
  /\ call' = [call EXCEPT !.run.pc = "send"]
  /\ UNCHANGED <<cache, workflow>>

\* isDuplicateAndRemember: put(key, hash, {expirationTtl}); return false
ReportRemember ==
  /\ call.run.pc = "put"
  /\ cache' = [cache EXCEPT ![dedupKey(call.run.flow)] = call.run.hash]
  /\ call' = [call EXCEPT !.run.pc = "send"]
  /\ UNCHANGED workflow

\* after the check: dry-run and a missing webhook URL return before the
\* send; postSlack sends, or throws (delivered = FALSE) and the run ends in
\* its catch block
ReportSend(delivered) ==
  /\ call.run.pc = "send"
  /\ LET sent == IF call.run.config.dryRun THEN "dryRun"
                 ELSE IF ~call.run.config.slackWebhookUrl THEN "no webhook url"
                 ELSE IF delivered THEN "sent" ELSE "failed"
     IN call' = [call EXCEPT !.run = ReportIdle, !.log = Append(@, Ran(call.run, FALSE, sent))]
  /\ UNCHANGED <<cache, workflow>>

\* expirationTtl seconds after the put the store drops the dedup key
ReportKeyExpires(k) ==
  /\ call.run.pc = "idle"
  /\ cache[k] # NoHash
  /\ Len(call.log) < MaxCalls
  /\ cache' = [cache EXCEPT ![k] = NoHash]
  /\ call' = [call EXCEPT !.log = Append(@, [op |-> "expire", key |-> k, hash |-> NoHash,
                                             dup |-> FALSE, sent |-> "skipped"])]
  /\ UNCHANGED workflow

NextReport ==
  \/ \E flow \in ReportFlows, hash \in Hashes, config \in ReportConfigs : ReportStart(flow, hash, config)
  \/ ReportRemember
  \/ \E delivered \in BOOLEAN : ReportSend(delivered)
  \/ \E k \in ReportKeys : ReportKeyExpires(k)

SpecReport == InitReport /\ [][NextReport]_vars

\* the runs that follow, on the same key, a run with the same payload
RepeatedRuns ==
  {i \in 2..Len(call.log) :
     /\ call.log[i].op = "run"
     /\ LET before == OfKey(SubSeq(call.log, 1, i - 1), call.log[i].key)
        IN /\ before # <<>>
           /\ before[Len(before)].op = "run"
           /\ before[Len(before)].hash = call.log[i].hash}

\* C35: in both report runs the hash is stored by the time the dedup check
\* has answered not-duplicate, before anything is sent; so whatever became
\* of the send (sent, send error, dry-run, no webhook URL), the next run on
\* the key with an unchanged payload, the key not having expired, is
\* reported duplicate and sends nothing.
C35_RememberedBeforeSend ==
  /\ call.run.pc = "send" => cache[dedupKey(call.run.flow)] = call.run.hash
  /\ \A i \in RepeatedRuns : call.log[i].dup /\ call.log[i].sent = "skipped"

\* a run whose send failed, then a run with the same payload: skipped
C35_Witness ==
  /\ Len(call.log) = 3
  /\ call.log[1].op = "run" /\ call.log[1].sent = "failed"
  /\ call.log[2].key # call.log[1].key /\ call.log[2].sent = "dryRun"
  /\ call.log[3].key = call.log[1].key /\ call.log[3].hash = call.log[1].hash
  /\ call.log[3].dup /\ call.log[3].sent = "skipped"

\* Concurrent dedup calls: a cron run and a manual run (handleHttp) are
\* separate invocations, their reads and puts of a dedup key interleave.
NextDedupRace ==
  \/ \E p \in Procs, k \in DedupKeys, h \in Hashes : isDuplicateAndRemember(p, k, h)
  \/ \E p \in Procs : DedupPut(p)
  \/ \E k \in DedupKeys : DedupExpires(k)

SpecDedupRace == InitDedup /\ [][NextDedupRace]_vars

\* C36: of the calls made for one key with an unchanged payload, while the
\* key has not expired, at most one reports not-duplicate: two calls of the
\* log with the same key and hash that both reported not-duplicate have an
\* expiry of the key or a call with another payload between them. Calls
\* running concurrently are included.
C36_AtMostOneNotDuplicate ==
  \A i, j \in 1..Len(call.log) :
    (/\ i < j
     /\ call.log[i].op = "call" /\ call.log[j].op = "call"
     /\ call.log[i].key = call.log[j].key /\ call.log[i].hash = call.log[j].hash
     /\ ~call.log[i].dup /\ ~call.log[j].dup) =>
      \E m \in (i + 1)..(j - 1) :
        /\ call.log[m].key = call.log[i].key
        /\ call.log[m].op = "expire" \/ call.log[m].hash # call.log[i].hash

\* C37: in every reachable state a check-in thread whose ThreadState is
\* replied has a non-empty ReplyLog, and no run of the reminder flow sends a
\* reminder into a thread whose state is replied, whatever the handlers of
\* the thread are doing at the time.
C37_RemindersOnlyToPending ==
  /\ [](\A t \in Threads : threadState[t] = "replied" => replyLog[t] # <<>>)
  /\ [][\A t \in Threads :
          (reminded' # reminded /\ reminded'[t] = "sent") => threadState[t] # "replied"]_vars

\* ------------------------------------------------------------- deployments
\* the DRY_RUN binding is changed by a deployment, between invocations
SwitchDryRun ==
  /\ \A p \in Procs : At(p, "idle")
  /\ dryRun' = ~dryRun
  /\ UNCHANGED <<cache, call, hasCtx, reminded, store, msgKind, notion, proc, threadUsed, consumed, open>>

\* The proposal lifecycle across deployments that switch dry-run on and off.
NextDryRun ==
  \/ DispatchApproval(1)
  \/ StepApproval(1)
  \/ runEveningFlow
  \/ \E m \in BotMsgs : PendingActionExpires(m)
  \/ SwitchDryRun

SpecDryRun == Init /\ [][NextDryRun]_vars

\* the approval handlers' last steps on a PendingAction
ApprovalDone(p) ==
  /\ proc[p].h \in ApprovalKinds
  /\ proc[p].pc \in {"r_del", "r_delref", "b_del", "b_delref"}
  /\ proc'[p].pc = "idle"

\* C38: while dryRun is enabled no step makes a call on the task data
\* source, whatever the kinds of the approved actions (a run is recorded
\* with no call); an approval handler (reaction or button) that ends has
\* nevertheless deleted the PendingAction and the BackRef of its thread; and
\* a confirmation whose proposal has been run once is never run again, so a
\* dry-run approval is not repeated for real after dry-run is switched off.
C38_DryRunApproval ==
  /\ [][dryRun => \A m \in BotMsgs :
                    \/ notion'[m] = notion[m]
                    \/ /\ Len(notion'[m]) = Len(notion[m]) + 1
                       /\ SubSeq(notion'[m], 1, Len(notion[m])) = notion[m]
                       /\ notion'[m][Len(notion'[m])].calls = <<>>]_vars
  /\ [][\A p \in Procs :
          ApprovalDone(p) =>
            /\ pendingAction'[proc[p].m] = Null
            /\ proc[p].pending.threadTs # NoThread =>
                 createRef'[proc[p].pending.threadTs] = NoMsg]_vars
  /\ [][\A m \in BotMsgs :
          (msgKind[m] = "confirm" /\ notion[m] # <<>>) => notion'[m] = notion[m]]_vars

\* a proposal with executable actions was approved under dry-run (one run,
\* no call), dry-run has been switched off, and a second approval of the
\* same confirmation has arrived: there is no PendingAction for it to find
C38_Witness ==
  /\ ~dryRun
  /\ \E p \in Procs :
       /\ proc[p].h \in ApprovalKinds
       /\ proc[p].late = "approved"
       /\ proc[p].pc \in {"r_get", "b_get"}
       /\ msgKind[proc[p].m] = "confirm"
       /\ pendingAction[proc[p].m] = Null
       /\ Len(notion[proc[p].m]) = 1
       /\ notion[proc[p].m][1].calls = <<>>
       /\ \E i \in 1..Len(notion[proc[p].m][1].actions) : Executable(notion[proc[p].m][1].actions[i])
       /\ \A t \in Threads : createRef[t] = NoMsg

(***************************************************************************)
(* A task that leaves the list between two snapshots, seen by the two      *)
(* analytics functions: the consumption of the day-pair (D-1, D-2) and the *)
(* weekly diff that takes the earlier snapshot as its D-7.                 *)
(***************************************************************************)
\* what day D-2 may hold: lists as buildSprintTasksMeta writes them (no
\* completed entry, a task with two assignees twice), and one the store may
\* hand over beyond that
EarlierSnapshots ==
  { NoSnapshot,
    Stored(<<>>),
    Stored(<< Task("a", <<"Doing">>, 3), Task("b", <<"Todo">>, 2) >>),
    Stored(<< Task("a", <<"Doing">>, 3), Task("b", <<"Todo">>, NoSp), Task("c", NoStatus, 5) >>),
    Stored(<< Task("a", <<"In Progress">>, 3), Task("a", <<"In Progress">>, 3), Task("b", <<"Todo">>, 2) >>),
    Stored(<< Task("a", <<"Done">>, 3), Task("b", <<"Todo">>, 2) >>) }

\* what day D-1 may hold
LaterSnapshots ==
  { NoSnapshot,
    Stored(<<>>),
    Stored(<< Task("b", <<"Todo">>, 2) >>),
    Stored(<< Task("a", <<"Doing">>, 3), Task("b", <<"Todo">>, 2) >>),
    Stored(<< Task("b", <<"Doing">>, 4), Task("d", <<"Todo">>, 1) >>),
    Stored(<< Task("a", <<"Done">>, 4), Task("b", <<"Todo">>, 2) >>),
    Stored(<< Task("b", <<"kanryo">>, 4), Task("c", <<"Re", "Closed">>, NoSp) >>),
    Stored(<< Task("d", <<"Done">>, 1) >>) }

InitDisappear ==
  /\ hasCtx = TRUE
  /\ InitStore
  /\ dryRun = FALSE
  /\ \E earlier \in EarlierSnapshots, later \in LaterSnapshots :
       cache = [key \in SprintIds \X {Today - 2, Today - 1} |->
                  IF key[1] # "sprint-1" THEN OtherSprint
                  ELSE IF key[2] = Today - 2 THEN earlier ELSE later]
  /\ call = AnalyticsIdle

\* both functions on the same two lists: the consumption up to day D, and
\* the weekly diff of the day whose D-7 is the earlier snapshot, with the
\* later list as the current tasks
CallBoth(sprintId) ==
  /\ call = AnalyticsIdle
  /\ call' = [op |-> "disappearance", sprintId |-> sprintId,
              consumption |-> calculateAvgDailySpConsumption(sprintId, Today),
              weekly |-> calculateWeeklyDiff(sprintId, Today - 2 + WeekOffset,
                                             getSnapshot(sprintId, Today - 1).tasks)]
  /\ UNCHANGED <<cache, workflow>>

NextDisappear == \E sprintId \in SprintIds : CallBoth(sprintId)

SpecDisappear == InitDisappear /\ [][NextDisappear]_vars

\* the entries of the earlier list that are not completed and whose id the
\* later list does not hold
Gone(earlier, later) ==
  { m \in 1..Len(earlier) :
      /\ ~isCompletedStatus(earlier[m].status)
      /\ \A n \in 1..Len(later) : later[n].id # earlier[m].id }

\* the entries of the later list that are completed and whose id the
\* earlier list holds as not completed
InBoth(earlier, later) ==
  { n \in 1..Len(later) :
      /\ isCompletedStatus(later[n].status)
      /\ \E m \in 1..Len(earlier) :
           earlier[m].id = later[n].id /\ ~isCompletedStatus(earlier[m].status) }

\* C39: the consumption of a day-pair is the size of the entries that are in
\* both snapshots (completed in the later, not completed in the earlier): an
\* entry that is not completed in the earlier snapshot and absent from the
\* later one adds nothing; calculateWeeklyDiff on the same two lists puts
\* every such entry in its completed bucket, with the size of the earlier
\* snapshot.
C39_DisappearedItems ==
  call.op = "disappearance" =>
    LET old == getSnapshot(call.sprintId, Today - 2)
        new == getSnapshot(call.sprintId, Today - 1)
        gone == Gone(old.tasks, new.tasks)
        both == InBoth(old.tasks, new.tasks)
    IN /\ IF old = NoSnapshot \/ new = NoSnapshot
            THEN call.consumption = NoData
            ELSE /\ call.consumption # NoData
                 /\ call.consumption.daysWithData = 1
                 /\ call.consumption.avgDailySp =
                      SpUnit * Sum([n \in both |-> OrZero(new.tasks[n].sp)], both)
       /\ IF old = NoSnapshot
            THEN call.weekly = NoData
            ELSE /\ call.weekly # NoData
                 /\ \A m \in gone :
                      \E k \in 1..Len(call.weekly.completedTasks) :
                        call.weekly.completedTasks[k] = Entry(old.tasks[m])
                 /\ call.weekly.totalCompletedSp >=
                      Sum([m \in gone |-> OrZero(old.tasks[m].sp)], gone)

\* task a (not completed, size 3) is in the earlier snapshot and not in the
\* later one: the consumption is 0 over one day with data, the weekly diff
\* has a in its completed bucket and a completed size of 3
C39_Witness ==
  /\ call.op = "disappearance"
  /\ call.sprintId = "sprint-1"
  /\ getSnapshot("sprint-1", Today - 2) = Stored(<< Task("a", <<"Doing">>, 3), Task("b", <<"Todo">>, 2) >>)
  /\ getSnapshot("sprint-1", Today - 1) = Stored(<< Task("b", <<"Todo">>, 2) >>)
  /\ call.consumption = [avgDailySp |-> 0, daysWithData |-> 1]
  /\ call.weekly # NoData
  /\ call.weekly.completedTasks = << [id |-> "a", name |-> "a", sp |-> 3] >>
  /\ call.weekly.totalCompletedSp = 3

(***************************************************************************)
(* The lifetime of a snapshot: buildSprintTasksMeta puts it with           *)
(* expirationTtl = dedupeTtlSeconds (7 * 24 * 3600 s, 168 hours), and the  *)
(* analytics functions read the keys of the days D-1..D-8.                 *)
(***************************************************************************)
TtlHours == 168

\* the hours at which something happens: two on day 0 and two on day 1 (the
\* writes of interest), and on days 7 and 8 the hours just before and
\* exactly 168 hours after them
TtlInstants == {1, 10, 16, 30, 160, 169, 175, 178, 184, 190, 198}
TtlDays == {toJstDateString(h, 0) : h \in TtlInstants}
Never == 0 - 1

\* the key is counted in days (7 civil days) instead of seconds
Expired_ByDay(writtenAt, now) ==
  toJstDateString(now, 0) - toJstDateString(writtenAt, 0) > WeekOffset

\* the store no longer returns a key put at writtenAt
Expired(writtenAt, now) == now - writtenAt >= TtlHours

NoRead == [op |-> "none"]

InitTtl ==
  /\ hasCtx = TRUE
  /\ InitStore
  /\ dryRun = FALSE
  /\ cache = [key \in {"sprint-1"} \X TtlDays |-> NoSnapshot]
  /\ call = [clock |-> 1, writtenAt |-> [key \in {"sprint-1"} \X TtlDays |-> Never], last |-> NoRead]

\* time goes on to hour h: the keys whose TTL has run out by then are gone
\* (writtenAt keeps the hour of the last put of a key)
TtlTick(h) ==
  /\ h \in TtlInstants
  /\ h > call.clock
  /\ cache' = [key \in DOMAIN cache |->
                 IF call.writtenAt[key] # Never /\ Expired(call.writtenAt[key], h)
                   THEN NoSnapshot ELSE cache[key]]
  /\ call' = [call EXCEPT !.clock = h]
  /\ UNCHANGED workflow

\* buildSprintTasksMeta run now: put(snapshotKey, currentSnapshot, {expirationTtl})
PutSnapshot(sprintId, items) ==
  /\ LET key == <<sprintId, toJstDateString(call.clock, 0)>> IN
       /\ cache' = [cache EXCEPT ![key] = Stored(items)]
       /\ call' = [call EXCEPT !.writtenAt[key] = call.clock]
  /\ UNCHANGED workflow

\* a flow run now: today = toJstDateString(now), then the weekly diff and the
\* consumption of the sprint are computed from the store
ReadAnalytics(sprintId, currentTasks) ==
  /\ LET today == toJstDateString(call.clock, 0) IN
       call' = [call EXCEPT !.last =
                  [op |-> "read", sprintId |-> sprintId, at |-> call.clock,
                   writtenAt |-> call.writtenAt,
                   weekly |-> calculateWeeklyDiff(sprintId, today, currentTasks),
                   consumption |-> calculateAvgDailySpConsumption(sprintId, today)]]
  /\ UNCHANGED <<cache, workflow>>

NextTtl ==
  \/ \E h \in TtlInstants : TtlTick(h)
  \/ \E items \in SummaryItems : PutSnapshot("sprint-1", items)
  \/ ReadAnalytics("sprint-1", <<>>)

SpecTtl == InitTtl /\ [][NextTtl]_vars

\* at the last read, the snapshot of the given day had been put, and put
\* less than 7 x 24 hours before the read
FreshAtRead(day) ==
  /\ <<call.last.sprintId, day>> \in DOMAIN call.last.writtenAt
  /\ call.last.writtenAt[<<call.last.sprintId, day>>] # Never
  /\ call.last.at - call.last.writtenAt[<<call.last.sprintId, day>>] < 7 * 24

PairsAtRead ==
  LET D == (call.last.at + 9) \div 24
  IN {i \in 1..7 : FreshAtRead(D - i) /\ FreshAtRead(D - i - 1)}

\* C40: a read on day D gets a weekly diff exactly when the day D-7
\* snapshot was last written less than 7 x 24 hours before the read (later
\* reads get "no data"), and the consumption counts the day-pair (D-i,
\* D-i-1) exactly when both its snapshots were; so the oldest pair, which
\* needs the day D-8 snapshot, is skipped whenever that snapshot was written
\* 7 x 24 hours or more before the read.
C40_SnapshotTtl ==
  call.last.op = "read" =>
    LET D == (call.last.at + 9) \div 24
    IN /\ (call.last.weekly # NoData) <=> FreshAtRead(D - 7)
       /\ IF PairsAtRead = {}
            THEN call.last.consumption = NoData
            ELSE /\ call.last.consumption # NoData
                 /\ call.last.consumption.daysWithData = Cardinality(PairsAtRead)
       /\ ~FreshAtRead(D - 8) => 7 \notin PairsAtRead

\* the snapshots of day 0 and day 1 were last written at hours 10 and 30,
\* and the read comes on day 8 at hour 198, 168 hours after the second
\* write: the weekly diff (D-7 = day 1) is "no data" and the oldest day-pair
\* (day 1, day 0) is skipped, as are the others: no consumption
C40_Witness ==
  /\ call.last.op = "read"
  /\ call.last.at = 198
  /\ call.last.writtenAt[<<"sprint-1", 0>>] = 10
  /\ call.last.writtenAt[<<"sprint-1", 1>>] = 30
  /\ call.last.weekly = NoData
  /\ call.last.consumption = NoData

====
